---- MODULE Spec2Model ----
(***************************************************************************)
(* Model of MediaPipeGestureRecognizer (src/src/gesture_recognizer.py):    *)
(* the track manager (_update_tracks), the primary selector                *)
(* (_select_primary), the flow estimator (_hand_flow, _robust_median) and  *)
(* the gesture classifier (_infer), driven frame by frame by               *)
(* process_frame; of the capture loop that calls it                        *)
(* (VideoCaptureThread.run, src/src/video_capture.py); and of the command  *)
(* handler and the player it commands (MainWindow.handle_command,          *)
(* src/src/main.py; VideoPlayerThread, src/src/video_player.py).           *)
(*                                                                         *)
(* Conventions.                                                            *)
(*  - Python None is NoTrack (0) for a track id (ids start at 1), NoIdx    *)
(*    (0) for a detection index, "None" for gesture/cmd and <<>> for a     *)
(*    point or a point array.                                              *)
(*  - Detection indices are 1-based here (0-based in the code); only       *)
(*    their order matters.                                                 *)
(*  - Pixel coordinates are integers, as process_frame makes them          *)
(*    (int(p.x * w)).  Flow displacements are kept in units of 1/FlowUnit  *)
(*    pixel, so that the medians of whole-pixel displacements are exact.   *)
(*  - Normalised speeds and their EMAs are IEEE doubles in the code; here  *)
(*    they are fixed-point numbers in units of 1/NormUnit, every division  *)
(*    rounded to the nearest unit.  The 1e-6 guards of the code are below  *)
(*    that resolution and are left out.                                    *)
(*  - Euclidean distances between integer points are compared through     *)
(*    their squares (exact); where the distance itself is needed           *)
(*    (_palm_spread) it is taken in tenths of a pixel.                     *)
(*  - The detector (MediaPipe Hands), the optical-flow tracker             *)
(*    (cv2.calcOpticalFlowPyrLK) and the wall clock are the environment:   *)
(*    their results are the inputs of ProcessFrame.                        *)
(*  - The clock readings of one process_frame call (lines 384, 402 and    *)
(*    285) fall in the same millisecond.                                   *)
(***************************************************************************)
EXTENDS Integers, Sequences, FiniteSets, TLC

-----------------------------------------------------------------------------
(* Bounds of the model *)

\* frames processed in one run of the open-palm specification
MaxPalmFrames == 15
\* times the scene changes in one run of the open-palm specification
MaxPalmChanges == 2
\* frames processed in one run of the primary-lock specification
MaxLockFrames == 5
\* frames processed in one run of the two-hand specification
MaxPairFrames == 11
\* frames processed in one run of the swipe specification
MaxSwipeFrames == 7
\* tracks created in one run (next_track_id stays <= MaxTracks + 1)
MaxTracks == 4
\* frames without a detected hand in one run of the swipe specification
MaxSwipeGaps == 1
\* frames processed in one run of the history specification
MaxHistoryFrames == 31
\* steps in one run of the player specification
MaxPlayerSteps == 6
\* steps in one run of the camera specification
MaxCameraSteps == 10
\* frames processed in one run of the flow specification
MaxFlowFrames == 5
\* frames processed in one run of the finger specification
MaxFingerFrames == 2
\* frames processed in one run of the motion specification
MaxMotionFrames == 10
\* times the motion changes in one run of the motion specification
MaxMotionChanges == 1

-----------------------------------------------------------------------------
(* Program constants (MediaPipeGestureRecognizer.__init__ and literals) *)

NoTrack == 0
NoIdx == 0
NoPoint == <<>>

FlowUnit == 4
NormUnit == 10000

FrameW == 640
FrameH == 360

swipe_consistent_min == 4
flow_window_len == 4
dy_hist_len == 24
dy_path_window_ms == 250
open_palm_ms == 220
open_palm_cooldown_ms == 300
open_palm_frame_ms == 33
primary_lock_ms == 700
match_dist_px == 120
rearm_ms == 400
finger_delta == 10
min_dt_ms == 16
first_dt_ms == 33
margin_band_px == 120

\* thresholds in units of 1/NormUnit
vel_thresh_norm_vertical == 12000
vel_thresh_norm_horizontal == 12000
down_path_thresh == 18000

\* ratios as <<numerator, denominator>>
ema_alpha == <<1, 4>>
hysteresis_ratio == <<8, 10>>
down_bias == <<90, 100>>
vertical_angle_gate_ratio_up == <<22, 10>>
vertical_angle_gate_ratio_down == <<18, 10>>
horizontal_angle_gate_ratio == <<22, 10>>
open_palm_min_spread_ratio == <<122, 100>>
open_palm_max_spread_ratio == <<201, 100>>
flow_static_ratio == <<10, 1000>>
flow_static_min_px == 6
margin_scale_min == <<85, 100>>

-----------------------------------------------------------------------------
(* Arithmetic helpers *)

Abs(x) == IF x < 0 THEN -x ELSE x
Max(a, b) == IF a >= b THEN a ELSE b
Min(a, b) == IF a <= b THEN a ELSE b

\* a / b rounded to the nearest integer (b > 0)
RDiv(a, b) == (2 * a + b) \div (2 * b)

\* int(x) of a non-integral quotient a / b: truncation towards zero
TruncDiv(a, b) == IF a >= 0 THEN a \div b ELSE -((-a) \div b)

RECURSIVE SqrtDown(_, _, _)
SqrtDown(n, lo, hi) ==
    IF lo >= hi THEN lo
    ELSE LET mid == (lo + hi + 1) \div 2
         IN IF mid * mid <= n THEN SqrtDown(n, mid, hi) ELSE SqrtDown(n, lo, mid - 1)

\* floor of the square root of n, 0 <= n < 2^30
ISqrt(n) == SqrtDown(n, 0, 32767)

Dist2(p, q) == (p[1] - q[1]) * (p[1] - q[1]) + (p[2] - q[2]) * (p[2] - q[2])

\* np.hypot in tenths of a pixel
Hypot10(dx, dy) == ISqrt(100 * (dx * dx + dy * dy))

RECURSIVE InsertSorted(_, _)
InsertSorted(v, s) ==
    IF s = <<>> THEN <<v>>
    ELSE IF v <= Head(s) THEN <<v>> \o s
    ELSE <<Head(s)>> \o InsertSorted(v, Tail(s))

\* s in ascending order
RECURSIVE SortAsc(_)
SortAsc(s) == IF s = <<>> THEN <<>> ELSE InsertSorted(Head(s), SortAsc(Tail(s)))

\* the median of a sorted non-empty sequence whose entries are even: exact
MedianSorted(t) ==
    IF Len(t) % 2 = 1 THEN t[(Len(t) + 1) \div 2]
    ELSE (t[Len(t) \div 2] + t[Len(t) \div 2 + 1]) \div 2

\* np.median
Median(s) == MedianSorted(SortAsc(s))

\* 4 x np.percentile(s, 25 * k) with linear interpolation, t = s sorted
Percentile4Sorted(t, k) ==
    LET pos4 == (Len(t) - 1) * k
        i == pos4 \div 4
        f == pos4 % 4
    IN IF f = 0 THEN 4 * t[i + 1]
       ELSE 4 * t[i + 1] + f * (t[i + 2] - t[i + 1])

Percentile4(s, k) == Percentile4Sorted(SortAsc(s), k)

\* faulty variant: the deque has no maximum length
DequeAppendUnbounded(q, v, n) == Append(q, v)

\* collections.deque(maxlen = n).append
DequeAppend(q, v, n) == IF Len(q) < n THEN Append(q, v) ELSE Append(Tail(q), v)

-----------------------------------------------------------------------------
(* Landmark sets: 21 points, index 0 the wrist, 5/9/13/17 the MCP joints,   *)
(* 6/10/14/18 the PIP joints, 8/12/16/20 the fingertips.  The detector's    *)
(* output is drawn from three shapes, given relative to the palm centre at  *)
(* hand width 40, scaled and placed in the frame.                           *)

Landmarks == 0 .. 20

ShapeOf(seq) == [i \in Landmarks |-> seq[i + 1]]

\* four fingers extended, fingertips spread around the palm
OpenPalmShape ==
    ShapeOf(<< <<0, 24>>,
               <<-24, 16>>, <<-32, 4>>, <<-38, -6>>, <<-44, -16>>,
               <<-20, -12>>, <<-20, -32>>, <<-20, -46>>, <<-20, -60>>,
               <<-6, -14>>, <<-6, -36>>, <<-6, -52>>, <<-6, -68>>,
               <<6, -14>>, <<6, -34>>, <<6, -49>>, <<6, -64>>,
               <<20, -12>>, <<20, -28>>, <<20, -40>>, <<20, -52>> >>)

\* no finger extended
FistShape ==
    ShapeOf(<< <<0, 24>>,
               <<-24, 16>>, <<-32, 4>>, <<-30, -6>>, <<-22, -10>>,
               <<-20, -12>>, <<-20, -32>>, <<-20, -36>>, <<-20, -24>>,
               <<-6, -14>>, <<-6, -36>>, <<-6, -40>>, <<-6, -26>>,
               <<6, -14>>, <<6, -34>>, <<6, -38>>, <<6, -25>>,
               <<20, -12>>, <<20, -28>>, <<20, -32>>, <<20, -22>> >>)

\* the index finger alone extended
PointShape ==
    [FistShape EXCEPT ![7] = <<-20, -46>>, ![8] = <<-20, -60>>]

Hand(shape, scale, pos) ==
    [i \in Landmarks |-> <<pos[1] + scale * shape[i][1], pos[2] + scale * shape[i][2]>>]

-----------------------------------------------------------------------------
(* Static helpers of the recognizer *)

\* faulty variant: a tip exactly delta above the joint counts
IsFingerUpInclusive(pts, tip, pip) == pts[tip][2] <= pts[pip][2] - finger_delta

\* _is_finger_up (strict: the tip more than delta above the joint)
IsFingerUp(pts, tip, pip) == pts[tip][2] < pts[pip][2] - finger_delta

\* the finger count of _infer, thumb excluded
FourCount(pts) ==
    (IF IsFingerUp(pts, 8, 6) THEN 1 ELSE 0) + (IF IsFingerUp(pts, 12, 10) THEN 1 ELSE 0)
    + (IF IsFingerUp(pts, 16, 14) THEN 1 ELSE 0) + (IF IsFingerUp(pts, 20, 18) THEN 1 ELSE 0)

\* _palm_center: int() of the mean of points 0, 5, 17
PalmCenter(pts) ==
    << TruncDiv(pts[0][1] + pts[5][1] + pts[17][1], 3),
       TruncDiv(pts[0][2] + pts[5][2] + pts[17][2], 3) >>

\* _hand_width
HandWidth(pts) == Abs(pts[17][1] - pts[5][1])

\* _palm_spread: 4 x the mean fingertip distance, in tenths of a pixel
PalmSpreadSum10(pts, c) ==
    Hypot10(pts[8][1] - c[1], pts[8][2] - c[2]) + Hypot10(pts[12][1] - c[1], pts[12][2] - c[2])
    + Hypot10(pts[16][1] - c[1], pts[16][2] - c[2]) + Hypot10(pts[20][1] - c[1], pts[20][2] - c[2])

\* open_palm_min_spread_ratio <= spread <= open_palm_max_spread_ratio,
\* spread = (sum / 4) / hand_w
SpreadInRange(pts, c) ==
    LET sum10 == PalmSpreadSum10(pts, c)
        hw == HandWidth(pts)
    IN /\ open_palm_min_spread_ratio[1] * 4 * 10 * hw <= sum10 * open_palm_min_spread_ratio[2]
       /\ sum10 * open_palm_max_spread_ratio[2] <= open_palm_max_spread_ratio[1] * 4 * 10 * hw

SetMin(S) == CHOOSE m \in S : \A x \in S : m <= x

\* max and min of one coordinate (1 = x, 2 = y) over the points 0 .. i
RECURSIVE MaxCoord(_, _, _)
MaxCoord(pts, axis, i) ==
    IF i = 0 THEN pts[0][axis] ELSE Max(pts[i][axis], MaxCoord(pts, axis, i - 1))

RECURSIVE MinCoord(_, _, _)
MinCoord(pts, axis, i) ==
    IF i = 0 THEN pts[0][axis] ELSE Min(pts[i][axis], MinCoord(pts, axis, i - 1))

\* the axis-aligned bounding-box area of _select_primary
BBoxArea(pts) ==
    Max(1, (MaxCoord(pts, 1, 20) - MinCoord(pts, 1, 20))
           * (MaxCoord(pts, 2, 20) - MinCoord(pts, 2, 20)))

\* the anchors of _hand_flow: the palm centre, then points 0,5,9,13,17,8,12,16,20
anchor_idxs == <<0, 5, 9, 13, 17, 8, 12, 16, 20>>
Anchors(pts, cxcy) == <<cxcy>> \o [k \in 1 .. Len(anchor_idxs) |-> pts[anchor_idxs[k]]]

-----------------------------------------------------------------------------
(* Track manager: _update_tracks.  tracks maps an id to                     *)
(* [center, last_seen_ms, armed]; ids are 1 .. next_track_id - 1.           *)

\* faulty variant: the squared distance compared with the unsquared limit
WithinUnsquared(d2) == d2 <= match_dist_px

\* best_dist <= 120, on squared distances
WithinMatchDist(d2) == d2 <= match_dist_px * match_dist_px

\* faulty variant: the unmatched track of lowest id, whatever its distance
LowestTrack(trk, unmatched, c) ==
    IF unmatched = {} THEN NoTrack ELSE SetMin(unmatched)

\* the inner loop: the unmatched track at minimum distance, the first such
\* in iteration order (ascending ids for a set of small ints); NoTrack when
\* no track is unmatched
NearestTrack(trk, unmatched, c) ==
    IF unmatched = {} THEN NoTrack
    ELSE CHOOSE t \in unmatched :
            \A u \in unmatched :
                \/ Dist2(c, trk[t].center) < Dist2(c, trk[u].center)
                \/ (Dist2(c, trk[t].center) = Dist2(c, trk[u].center) /\ t <= u)

\* a fresh track (line 229)
NewTrack(c, now_ms) == [center |-> c, last_seen_ms |-> now_ms, armed |-> TRUE]

\* faulty variant: the id counter is not advanced
SameId(next_id) == next_id

\* line 228: the id counter after a track was created
NextId(next_id) == next_id + 1

\* one iteration of the loop over the detected centers
MatchStep(s, c, now_ms) ==
    LET best_id == NearestTrack(s.tracks, s.unmatched, c)
    IN IF best_id # NoTrack /\ WithinMatchDist(Dist2(c, s.tracks[best_id].center))
       THEN [tracks |-> [s.tracks EXCEPT ![best_id].center = c,
                                         ![best_id].last_seen_ms = now_ms],
             next_track_id |-> s.next_track_id,
             assign |-> Append(s.assign, best_id),
             unmatched |-> s.unmatched \ {best_id}]
       ELSE [tracks |-> (s.next_track_id :> NewTrack(c, now_ms)) @@ s.tracks,
             next_track_id |-> NextId(s.next_track_id),
             assign |-> Append(s.assign, s.next_track_id),
             unmatched |-> s.unmatched]

\* the loop over the detected centers, from detection k on
RECURSIVE MatchAll(_, _, _, _)
MatchAll(s, centers, k, now_ms) ==
    IF k > Len(centers) THEN s
    ELSE MatchAll(MatchStep(s, centers[k], now_ms), centers, k + 1, now_ms)

\* faulty variant: the timeout is not checked
StaleAlways(track, now_ms) == TRUE

\* the timeout of the last loop: unmatched and not seen for 400 ms
IsStale(track, now_ms) == (now_ms - track.last_seen_ms) >= rearm_ms

\* faulty variant: every track is re-armed on every frame
ReArmAll(trk, unmatched, now_ms) == [t \in DOMAIN trk |-> [trk[t] EXCEPT !.armed = TRUE]]

\* the last loop: re-arm the stale unmatched tracks
ReArm(trk, unmatched, now_ms) ==
    [t \in DOMAIN trk |->
        IF t \in unmatched /\ IsStale(trk[t], now_ms)
        THEN [trk[t] EXCEPT !.armed = TRUE] ELSE trk[t]]

\* faulty variant: the stale unmatched tracks are deleted
AfterMatchingDrop(s, now_ms) ==
    [tracks |-> [t \in {u \in DOMAIN s.tracks :
                            ~(u \in s.unmatched /\ IsStale(s.tracks[u], now_ms))}
                    |-> s.tracks[t]],
     next_track_id |-> s.next_track_id,
     assign |-> s.assign]

\* lines 231-236: what _update_tracks leaves behind after the matching loop
AfterMatching(s, now_ms) ==
    [tracks |-> ReArm(s.tracks, s.unmatched, now_ms),
     next_track_id |-> s.next_track_id,
     assign |-> s.assign]

\* _update_tracks: the new track map, the new next_track_id and the
\* assignment (detection index -> track id, as a sequence)
UpdateTracks(trk, next_id, centers, now_ms) ==
    AfterMatching(MatchAll([tracks |-> trk, next_track_id |-> next_id,
                            assign |-> <<>>, unmatched |-> DOMAIN trk], centers, 1, now_ms),
                  now_ms)

-----------------------------------------------------------------------------
(* Primary selector: _select_primary *)

\* faulty variant: the lock window never opens
LockClosed(primary, last_set_ms, now_ms) == FALSE

\* line 242: a primary exists and the lock window is open
LockOpen(primary, last_set_ms, now_ms) ==
    primary # NoTrack /\ (now_ms - last_set_ms) < primary_lock_ms

\* lines 243-244: the detection assigned to the primary track, NoIdx if none
PrimaryDetection(assign, primary) ==
    IF \E i \in DOMAIN assign : assign[i] = primary
    THEN SetMin({i \in DOMAIN assign : assign[i] = primary})
    ELSE NoIdx

\* the areas of lines 252-253, per detection
Areas(hands_pts2d) == [i \in DOMAIN hands_pts2d |-> BBoxArea(hands_pts2d[i])]

\* faulty variant: a detection wins only if it is larger than every other
LargestStrictly(hands_pts2d) ==
    IF \E i \in DOMAIN hands_pts2d : \A j \in DOMAIN hands_pts2d \ {i} :
            Areas(hands_pts2d)[i] > Areas(hands_pts2d)[j]
    THEN CHOOSE i \in DOMAIN hands_pts2d : \A j \in DOMAIN hands_pts2d \ {i} :
            Areas(hands_pts2d)[i] > Areas(hands_pts2d)[j]
    ELSE NoIdx

\* faulty variant: the last index of maximal area
LastLargest(area) ==
    CHOOSE i \in DOMAIN area :
        \A j \in DOMAIN area : area[i] > area[j] \/ (area[i] = area[j] /\ i >= j)

\* lines 254-257: the first index of maximal area
FirstLargest(area) ==
    CHOOSE i \in DOMAIN area :
        \A j \in DOMAIN area : area[i] > area[j] \/ (area[i] = area[j] /\ i <= j)

\* lines 250-258: the detection of largest area, the first one on a tie
LargestDetection(hands_pts2d) == FirstLargest(Areas(hands_pts2d))

\* the result of _select_primary: the detection index returned, the reason
\* reported, and the three fields it may write
Selection(idx, reason, primary, set_ms, center) ==
    [idx |-> idx, reason |-> reason, primary_track_id |-> primary,
     last_primary_set_ms |-> set_ms, primary_last_center |-> center]

\* lines 259-264: the largest hand, best, becomes primary (if it has a track)
SelectLargest(best, hands_pts2d, assign, primary, last_set_ms, last_center, now_ms) ==
    IF best \in DOMAIN assign
    THEN Selection(best, "largest_area", assign[best], now_ms, PalmCenter(hands_pts2d[best]))
    ELSE Selection(best, IF best = NoIdx THEN "none" ELSE "largest_area",
                   primary, last_set_ms, last_center)

\* faulty variant: a frame that keeps the primary restarts the lock window
SelectPrimaryRefreshing(hands_pts2d, assign, primary, last_set_ms, last_center, now_ms) ==
    IF hands_pts2d = <<>>
    THEN Selection(NoIdx, "none", primary, last_set_ms, last_center)
    ELSE IF LockOpen(primary, last_set_ms, now_ms) /\ PrimaryDetection(assign, primary) # NoIdx
    THEN Selection(PrimaryDetection(assign, primary), "lock_window", primary, now_ms,
                   PalmCenter(hands_pts2d[PrimaryDetection(assign, primary)]))
    ELSE SelectLargest(LargestDetection(hands_pts2d), hands_pts2d, assign, primary,
                       last_set_ms, last_center, now_ms)

\* _select_primary
SelectPrimary(hands_pts2d, assign, primary, last_set_ms, last_center, now_ms) ==
    IF hands_pts2d = <<>>
    THEN Selection(NoIdx, "none", primary, last_set_ms, last_center)
    ELSE IF LockOpen(primary, last_set_ms, now_ms) /\ PrimaryDetection(assign, primary) # NoIdx
    THEN Selection(PrimaryDetection(assign, primary), "lock_window", primary, last_set_ms,
                   PalmCenter(hands_pts2d[PrimaryDetection(assign, primary)]))
    ELSE SelectLargest(LargestDetection(hands_pts2d), hands_pts2d, assign, primary,
                       last_set_ms, last_center, now_ms)

-----------------------------------------------------------------------------
(* Flow estimator: _robust_median, _update_prev, _hand_flow.                *)
(* The tracker's answer lk is [kind |-> "raise"] (calcOpticalFlowPyrLK      *)
(* throws) or [kind |-> "ok", st, d]: per previous point its status (1 =    *)
(* found) and its displacement <<dx, dy>> in whole pixels.                  *)

\* faulty variant: no value is discarded
KeepAll(values, med, iqr4) == values

\* arr[np.abs(arr - med) <= 1.5 * iqr], iqr = max(1e-6, q3 - q1); iqr4 is
\* 4 x (q3 - q1).  With q3 = q1 only the values equal to the median pass.
KeepInliers(values, med, iqr4) ==
    SelectSeq(values, LAMBDA v : IF iqr4 = 0 THEN v = med
                                 ELSE 8 * Abs(v - med) <= 3 * iqr4)

\* line 149
MedianOfKept(keep, med) == IF keep # <<>> THEN Median(keep) ELSE med

\* lines 145-149
TrimmedMedian(values, med, iqr4) == MedianOfKept(KeepInliers(values, med, iqr4), med)

\* _robust_median
RobustMedian(values) ==
    IF values = <<>> THEN 0
    ELSE TrimmedMedian(values, Median(values),
                       Percentile4(values, 3) - Percentile4(values, 1))

\* faulty variant: the status of the anchors is not looked at
TrackedDeltasAll(lk, axis) == [k \in 1 .. Len(lk.d) |-> FlowUnit * lk.d[k][axis]]

\* the displacements of the points whose status is 1, one axis (1 = x, 2 = y)
TrackedDeltas(lk, axis) ==
    LET found == SelectSeq([k \in 1 .. Len(lk.st) |-> k], LAMBDA k : lk.st[k] = 1)
    IN [k \in 1 .. Len(found) |-> FlowUnit * lk.d[found[k]][axis]]

\* faulty variant: a tracker exception leaves the previous frame stored
HandFlowRaiseKeepsPrev(p_gray, p_points, win_dx, win_dy, gray, pts, cxcy, lk) ==
    LET anchors == Anchors(pts, cxcy)
        dx == RobustMedian(TrackedDeltas(lk, 1))
        dy == RobustMedian(TrackedDeltas(lk, 2))
    IN IF p_gray = 0 \/ p_points = <<>>
       THEN [dx |-> 0, dy |-> 0, prev_gray |-> gray, prev_points |-> anchors,
             flow_window_dx |-> win_dx, flow_window_dy |-> win_dy]
       ELSE IF lk.kind = "raise"
       THEN [dx |-> 0, dy |-> 0, prev_gray |-> p_gray, prev_points |-> p_points,
             flow_window_dx |-> win_dx, flow_window_dy |-> win_dy]
       ELSE [dx |-> dx, dy |-> dy, prev_gray |-> gray, prev_points |-> anchors,
             flow_window_dx |-> DequeAppend(win_dx, dx, flow_window_len),
             flow_window_dy |-> DequeAppend(win_dy, dy, flow_window_len)]

\* _hand_flow: the flow sample and the fields it writes; _update_prev stores
\* the current frame and anchors on every path
HandFlow(p_gray, p_points, win_dx, win_dy, gray, pts, cxcy, lk) ==
    LET anchors == Anchors(pts, cxcy)
        dx == RobustMedian(TrackedDeltas(lk, 1))
        dy == RobustMedian(TrackedDeltas(lk, 2))
    IN IF p_gray = 0 \/ p_points = <<>> \/ lk.kind = "raise"
       THEN [dx |-> 0, dy |-> 0, prev_gray |-> gray, prev_points |-> anchors,
             flow_window_dx |-> win_dx, flow_window_dy |-> win_dy]
       ELSE [dx |-> dx, dy |-> dy, prev_gray |-> gray, prev_points |-> anchors,
             flow_window_dx |-> DequeAppend(win_dx, dx, flow_window_len),
             flow_window_dy |-> DequeAppend(win_dy, dy, flow_window_len)]

\* _consistent_sign
ConsistentSign(values, min_count) ==
    LET pos == Cardinality({k \in DOMAIN values : values[k] > 0})
        neg == Cardinality({k \in DOMAIN values : values[k] < 0})
    IN values # <<>> /\ (pos >= min_count \/ neg >= min_count)

-----------------------------------------------------------------------------
(* Gesture classifier: _infer *)

\* np.median of a flow window, 0.0 when it is empty (lines 282-283)
WindowMedian(win) == IF win = <<>> THEN 0 ELSE Median(win)

\* line 286
FrameDt(now_ms, last_ms) == IF last_ms # 0 THEN Max(min_dt_ms, now_ms - last_ms) ELSE first_dt_ms

\* lines 290-294: a window median (1/FlowUnit px) as a normalised speed
NormSpeed(med, dt_ms, hand_w) == RDiv(med * ((1000 * NormUnit) \div FlowUnit), dt_ms * hand_w)

\* lines 295-296
Ema(ema, norm) == RDiv((ema_alpha[2] - ema_alpha[1]) * ema + ema_alpha[1] * norm, ema_alpha[2])

\* lines 302-307: the positive entries of the history, newest first, up to
\* the first entry older than the window
RECURSIVE DownPathFrom(_, _, _, _)
DownPathFrom(hist_norm, hist_t, now_ms, n) ==
    IF n = 0 THEN 0
    ELSE IF (now_ms - hist_t[n]) > dy_path_window_ms THEN 0
    ELSE (IF hist_norm[n] > 0 THEN hist_norm[n] ELSE 0)
         + DownPathFrom(hist_norm, hist_t, now_ms, n - 1)

DownPathSum(hist_norm, hist_t, now_ms) == DownPathFrom(hist_norm, hist_t, now_ms, Len(hist_norm))

\* faulty variant: the gate is never cleared
GateNeverReset(gate, ema, thresh) == gate

\* lines 310-313: abs(ema) <= thresh * 0.8 clears the gate
GateAfterReset(gate, ema, thresh) ==
    IF hysteresis_ratio[2] * Abs(ema) <= hysteresis_ratio[1] * thresh THEN FALSE ELSE gate

\* lines 320-323: margin_scale as a fraction of margin_scale_min[2] * margin_band_px
MarginScaleNum(h, cy) ==
    LET margin_px == Max(0, h - cy)
    IN IF margin_px < margin_band_px
       THEN margin_scale_min[1] * margin_band_px
            + (margin_scale_min[2] - margin_scale_min[1]) * margin_px
       ELSE margin_scale_min[2] * margin_band_px

\* lines 324-325
VerticalThreshold(is_down, h, cy) ==
    IF is_down
    THEN RDiv(((vel_thresh_norm_vertical * down_bias[1]) \div down_bias[2]) * MarginScaleNum(h, cy),
              margin_scale_min[2] * margin_band_px)
    ELSE vel_thresh_norm_vertical

\* line 327 and line 341: abs(a) > ratio * abs(b)
AngleGate(a, b, ratio) == ratio[2] * Abs(a) > ratio[1] * Abs(b)

\* faulty variant: the floor is taken from flow_thresh_ratio = 0.040 (line 41)
FlowThreshPx(w, h) == Max(flow_static_min_px, (Max(w, h) * 40) \div 1000)

\* line 269
FlowStaticPx(w, h) ==
    Max(flow_static_min_px, (Max(w, h) * flow_static_ratio[1]) \div flow_static_ratio[2])

\* faulty variant: the counter is compared with the time in whole frames
PalmHeldSixFrames(cnt) == cnt * open_palm_frame_ms >= (open_palm_ms \div open_palm_frame_ms) * open_palm_frame_ms

\* line 358
PalmHeldLongEnough(cnt) == cnt * open_palm_frame_ms >= open_palm_ms

-----------------------------------------------------------------------------
(* State: the fields of MediaPipeGestureRecognizer, the wall clock, and     *)
(* what the last process_frame call returned and computed.                  *)

VARIABLES
    prev_gray,              \* the frame number of the stored grey frame, 0 for None
    prev_points,            \* the stored anchors, <<>> for None
    flow_window_dx,         \* deque(maxlen = 4), units of 1/FlowUnit px
    flow_window_dy,
    dy_ema, dx_ema,         \* units of 1/NormUnit
    dy_gate_high, dx_gate_high,
    last_frame_ms,
    dy_hist_norm,           \* deque(maxlen = 24), units of 1/NormUnit
    dy_hist_t,              \* deque(maxlen = 24), ms
    open_palm_stable_cnt,
    last_motion_cmd_ms,
    open_palm_armed,
    tracks,
    next_track_id,
    primary_track_id,
    last_primary_set_ms,
    primary_last_center,
    num_hands,
    frame_count,
    start_time,             \* ms
    fps,                    \* units of 1/1000 frame per second
    clock,                  \* time.time() at its last reading, ms
    frames,                 \* process_frame calls so far
    detection_result,       \* the dict returned by the last call
    loc,                    \* locals of the last call
    scene                   \* the scene in front of the camera

\* The fields of VideoCaptureThread (src/src/video_capture.py), the signals
\* it has emitted, and the fields of MainWindow (src/src/main.py) and
\* VideoPlayerThread (src/src/video_player.py) that commands act on.
VARIABLES
    hands_open,             \* gesture.hands is not None: the recognizer has its detector
    running,                \* VideoCaptureThread.running
    detecting,
    last_command,           \* "None" for None
    last_detect_time,       \* _last_detect_time, ms (0 for 0.0)
    thread_frame_count,     \* VideoCaptureThread.frame_count
    thread_fps,             \* VideoCaptureThread.fps, units of 1/1000 frame per second
    last_fps_time,          \* ms
    frame_remain,
    command_remain,
    status,                 \* the dict last emitted through detection_status, <<>> for {}
    cmd_queue,              \* the commands emitted through command_detected, not yet handled
    video_loaded,           \* MainWindow.video_loaded
    video_duration,         \* MainWindow.video_duration, ms
    playing, paused, stopped,
    video_fps,              \* frames per second
    total_frames,
    current_frame,
    seeks,                  \* the arguments of the _do_seek threads started and not yet run
    playback_finished,      \* playback_finished was emitted and is not yet handled
    loop_found_playing      \* the playback loop has read the flags (lines 365-368) and
                            \* found the player playing; its pass is still to come

flowVars == <<prev_gray, prev_points, flow_window_dx, flow_window_dy>>
inferVars == <<dy_ema, dx_ema, dy_gate_high, dx_gate_high, last_frame_ms,
               dy_hist_norm, dy_hist_t, open_palm_stable_cnt, last_motion_cmd_ms>>
trackVars == <<tracks, next_track_id, primary_track_id, last_primary_set_ms,
               primary_last_center>>
statVars == <<frame_count, start_time, fps>>
\* everything process_frame may write
recognizerVars == <<flowVars, inferVars, trackVars, statVars, open_palm_armed, num_hands,
                    frames, detection_result, loc>>
captureVars == <<hands_open, running, detecting, last_command, last_detect_time, thread_frame_count,
                 thread_fps, last_fps_time, frame_remain, command_remain, status, cmd_queue>>
playerVars == <<video_loaded, video_duration, playing, paused, stopped, video_fps,
                total_frames, current_frame, seeks, playback_finished, loop_found_playing>>
vars == <<recognizerVars, captureVars, playerVars, clock, scene>>

NoResult ==
    [hand_present |-> FALSE, num_hands |-> 0, gesture |-> "None", cmd |-> "None",
     primary_center |-> NoPoint, fps |-> 0]

NoLocals ==
    [centers |-> <<>>, areas |-> <<>>,
     assign_map |-> <<>>, primary_det_idx |-> NoIdx, reason |-> "none", tid |-> NoTrack,
     armed_in |-> FALSE, largest |-> NoIdx, four |-> 0, dx_med |-> 0, dy_med |-> 0,
     v_thr |-> 0, down_path_sum |-> 0, speed_pass |-> FALSE, path_pass |-> FALSE,
     eligible |-> FALSE, flow |-> <<0, 0>>]

\* __init__; the clock stands for the epoch time in ms, far above every timeout
RecognizerInit ==
    /\ prev_gray = 0 /\ prev_points = <<>>
    /\ flow_window_dx = <<>> /\ flow_window_dy = <<>>
    /\ dy_ema = 0 /\ dx_ema = 0
    /\ dy_gate_high = FALSE /\ dx_gate_high = FALSE
    /\ last_frame_ms = 0
    /\ dy_hist_norm = <<>> /\ dy_hist_t = <<>>
    /\ open_palm_stable_cnt = 0
    /\ last_motion_cmd_ms = 0
    /\ open_palm_armed = TRUE
    /\ tracks = <<>>
    /\ next_track_id = 1
    /\ primary_track_id = NoTrack
    /\ last_primary_set_ms = 0
    /\ primary_last_center = NoPoint
    /\ num_hands = 0
    /\ frame_count = 0
    /\ clock = 100000
    /\ start_time = 100000
    /\ fps = 0
    /\ frames = 0
    /\ detection_result = NoResult
    /\ loc = NoLocals

\* VideoCaptureThread.__init__
ThreadInit ==
    /\ hands_open = TRUE
    /\ running = FALSE
    /\ detecting = TRUE
    /\ last_command = "None"
    /\ last_detect_time = 0
    /\ thread_frame_count = 0
    /\ thread_fps = 0
    /\ last_fps_time = 100000
    /\ frame_remain = 0
    /\ command_remain = ""
    /\ status = <<>>
    /\ cmd_queue = <<>>

\* VideoPlayerThread.__init__ and the player fields of MainWindow.__init__
PlayerInit ==
    /\ video_loaded = FALSE
    /\ video_duration = 0
    /\ playing = FALSE /\ paused = FALSE /\ stopped = TRUE
    /\ video_fps = 30
    /\ total_frames = 0
    /\ current_frame = 0
    /\ seeks = <<>>
    /\ playback_finished = FALSE
    /\ loop_found_playing = FALSE

\* MainWindow.__init__ constructs the player thread and the capture thread,
\* which constructs the recognizer
WindowInit == RecognizerInit /\ ThreadInit /\ PlayerInit

-----------------------------------------------------------------------------
(* _infer: the values it writes and returns, from the current state *)

\* faulty variant: no cooldown after a swipe
EligibleWithoutCooldown(now_ms, motion_ms, dx_med, dy_med, w, h, four, pts, c, armed) ==
    /\ Abs(dx_med) < FlowUnit * FlowStaticPx(w, h)
    /\ Abs(dy_med) < FlowUnit * FlowStaticPx(w, h)
    /\ four >= 4 /\ SpreadInRange(pts, c)
    /\ armed

\* lines 351-355
OpenPalmEligible(now_ms, motion_ms, dx_med, dy_med, w, h, four, pts, c, armed) ==
    LET cooling == (now_ms - motion_ms) < open_palm_cooldown_ms
        is_static == /\ Abs(dx_med) < FlowUnit * FlowStaticPx(w, h)
                     /\ Abs(dy_med) < FlowUnit * FlowStaticPx(w, h)
        spread_ok == four >= 4 /\ SpreadInRange(pts, c)
    IN (~cooling) /\ is_static /\ spread_ok /\ armed

\* faulty variant: a hand with all four fingers extended does not swipe
VerticalTriggerNotOpenHand(four, is_vertical, speed_pass, path_pass, gate, consistent) ==
    four \in 1..3 /\ is_vertical /\ (speed_pass \/ path_pass) /\ ~gate /\ consistent

\* faulty variant: the signs of the flow window are not looked at
VerticalTriggerAnySign(four, is_vertical, speed_pass, path_pass, gate, consistent) ==
    four >= 1 /\ is_vertical /\ (speed_pass \/ path_pass) /\ ~gate

\* line 333
VerticalTrigger(four, is_vertical, speed_pass, path_pass, gate, consistent) ==
    four >= 1 /\ is_vertical /\ (speed_pass \/ path_pass) /\ ~gate /\ consistent

\* faulty variant: a hand with no finger extended can swipe
HorizontalTriggerAnyHand(four, is_horizontal, ema, gate, consistent) ==
    is_horizontal /\ Abs(ema) > vel_thresh_norm_horizontal /\ ~gate /\ consistent

\* faulty variant: the directions are exchanged
HorizontalSwipeMirrored(ema) ==
    IF ema > 0 THEN [gesture |-> "swipe_right", cmd |-> "seek_forward"]
    ELSE [gesture |-> "swipe_left", cmd |-> "seek_back"]

\* lines 346-347
HorizontalSwipe(ema) ==
    IF ema > 0 THEN [gesture |-> "swipe_left", cmd |-> "seek_back"]
    ELSE [gesture |-> "swipe_right", cmd |-> "seek_forward"]

\* lines 342-343
HorizontalTrigger(four, is_horizontal, ema, gate, consistent) ==
    four >= 1 /\ is_horizontal /\ Abs(ema) > vel_thresh_norm_horizontal /\ ~gate /\ consistent

\* _infer after the call of _hand_flow (line 281), whose result is fl
Classify(pts, w, h, now_ms, armed, fl) ==
    LET four == FourCount(pts)
        c == PalmCenter(pts)
        dx_med == WindowMedian(fl.flow_window_dx)
        dy_med == WindowMedian(fl.flow_window_dy)
        dt_ms == FrameDt(now_ms, last_frame_ms)
        hand_w == HandWidth(pts)
        dy_norm == NormSpeed(dy_med, dt_ms, hand_w)
        dx_norm == NormSpeed(dx_med, dt_ms, hand_w)
        dy_e == Ema(dy_ema, dy_norm)
        dx_e == Ema(dx_ema, dx_norm)
        hist_norm == DequeAppend(dy_hist_norm, dy_norm, dy_hist_len)
        hist_t == DequeAppend(dy_hist_t, now_ms, dy_hist_len)
        down_path_sum == DownPathSum(hist_norm, hist_t, now_ms)
        dy_gate == GateAfterReset(dy_gate_high, dy_e, vel_thresh_norm_vertical)
        dx_gate == GateAfterReset(dx_gate_high, dx_e, vel_thresh_norm_horizontal)
        is_down == dy_med > 0
        v_gate == IF is_down THEN vertical_angle_gate_ratio_down ELSE vertical_angle_gate_ratio_up
        v_thr == VerticalThreshold(is_down, h, c[2])
        is_vertical == AngleGate(dy_med, dx_med, v_gate)
        vertical_consistent == ConsistentSign(fl.flow_window_dy, swipe_consistent_min)
        speed_pass == Abs(dy_e) > v_thr
        path_pass == is_down /\ down_path_sum > down_path_thresh
        is_horizontal == AngleGate(dx_med, dy_med, horizontal_angle_gate_ratio)
        horizontal_consistent == ConsistentSign(fl.flow_window_dx, swipe_consistent_min)
        eligible == OpenPalmEligible(now_ms, last_motion_cmd_ms, dx_med, dy_med, w, h,
                                     four, pts, c, armed)
        base == [prev_gray |-> fl.prev_gray, prev_points |-> fl.prev_points,
                 flow_window_dx |-> fl.flow_window_dx, flow_window_dy |-> fl.flow_window_dy,
                 dy_ema |-> dy_e, dx_ema |-> dx_e,
                 dy_gate_high |-> dy_gate, dx_gate_high |-> dx_gate,
                 last_frame_ms |-> now_ms,
                 dy_hist_norm |-> hist_norm, dy_hist_t |-> hist_t,
                 open_palm_stable_cnt |-> open_palm_stable_cnt,
                 last_motion_cmd_ms |-> last_motion_cmd_ms,
                 open_palm_armed |-> armed,
                 gesture |-> "None", cmd |-> "None",
                 four |-> four, dx_med |-> dx_med, dy_med |-> dy_med, v_thr |-> v_thr,
                 down_path_sum |-> down_path_sum, speed_pass |-> speed_pass,
                 path_pass |-> path_pass, eligible |-> eligible,
                 flow |-> <<fl.dx, fl.dy>>]
    IN IF VerticalTrigger(four, is_vertical, speed_pass, path_pass, dy_gate, vertical_consistent)
       THEN [base EXCEPT !.dy_gate_high = TRUE, !.last_motion_cmd_ms = now_ms,
                         !.gesture = IF dy_e < 0 THEN "swipe_up" ELSE "swipe_down",
                         !.cmd = IF dy_e < 0 THEN "vol_up" ELSE "vol_down"]
       ELSE IF HorizontalTrigger(four, is_horizontal, dx_e, dx_gate, horizontal_consistent)
       THEN [base EXCEPT !.dx_gate_high = TRUE, !.last_motion_cmd_ms = now_ms,
                         !.gesture = HorizontalSwipe(dx_e).gesture,
                         !.cmd = HorizontalSwipe(dx_e).cmd]
       ELSE IF eligible
       THEN IF PalmHeldLongEnough(open_palm_stable_cnt + 1)
            THEN [base EXCEPT !.open_palm_stable_cnt = 0, !.open_palm_armed = FALSE,
                              !.gesture = "open_palm", !.cmd = "toggle"]
            ELSE [base EXCEPT !.open_palm_stable_cnt = open_palm_stable_cnt + 1]
       ELSE [base EXCEPT !.open_palm_stable_cnt = 0]

\* _infer
Infer(pts, w, h, gray, now_ms, lk, armed) ==
    Classify(pts, w, h, now_ms, armed,
             HandFlow(prev_gray, prev_points, flow_window_dx, flow_window_dy, gray, pts,
                      PalmCenter(pts), lk))

-----------------------------------------------------------------------------
(* process_frame *)

\* line 420: the armed flag of the primary hand's track
TrackArmed(trk, tid) == IF tid \in DOMAIN trk THEN trk[tid].armed ELSE TRUE

\* faulty variant: the track stays armed after an open palm
AfterGestureKeep(trk, tid, gesture) == trk

\* lines 427-428: an open palm disarms the primary hand's track
AfterGesture(trk, tid, gesture) ==
    IF gesture = "open_palm" /\ tid \in DOMAIN trk
    THEN [trk EXCEPT ![tid].armed = FALSE] ELSE trk

\* faulty variant: a frame without primary hand leaves the flag alone
ArmedKept(armed) == armed

\* line 431: open_palm_armed when there is no primary hand
ArmedWithoutPrimary(armed) == FALSE

\* faulty variant: the track map is emptied when no hand is detected
NoCentersForget(trk, next_id, now_ms) ==
    [tracks |-> <<>>, next_track_id |-> next_id, assign |-> <<>>]

\* line 407: without centers _update_tracks is not called
NoCenters(trk, next_id, now_ms) ==
    [tracks |-> trk, next_track_id |-> next_id, assign |-> <<>>]

\* faulty variant: the counter is not reset with the timer
FrameStatsKeepCounting(count, start, rate, now_ms) ==
    IF (count + 1) % 30 = 0
    THEN <<count + 1, now_ms,
           IF now_ms - start > 0 THEN RDiv((count + 1) * 1000000, now_ms - start) ELSE rate>>
    ELSE <<count + 1, start, rate>>

\* lines 382-388: the frame statistics, as <<frame_count, start_time, fps>>
FrameStats(count, start, rate, now_ms) ==
    IF (count + 1) % 30 = 0
    THEN <<0, now_ms,
           IF now_ms - start > 0 THEN RDiv((count + 1) * 1000000, now_ms - start) ELSE rate>>
    ELSE <<count + 1, start, rate>>

\* lines 390-400: the landmark sets of the frame, none when the detector is
\* closed
Detected(open, found) == IF open THEN found ELSE <<>>

\* One call of process_frame.  dt_ms: the time since the previous call;
\* found: the landmark sets the detector returns when it is asked; lk: the
\* tracker's answer, should _hand_flow ask for it.
ProcessFrame(dt_ms, found, lk) ==
    LET now_ms == clock + dt_ms
        gray == frames + 1
        hands_pts2d == Detected(hands_open, found)
        centers == [i \in DOMAIN hands_pts2d |-> PalmCenter(hands_pts2d[i])]
    IN \E stats \in {FrameStats(frame_count, start_time, fps, now_ms)} :
       \E ut \in {IF centers # <<>>
                  THEN UpdateTracks(tracks, next_track_id, centers, now_ms)
                  ELSE NoCenters(tracks, next_track_id, now_ms)} :
       \E sp \in {SelectPrimary(hands_pts2d, ut.assign, primary_track_id, last_primary_set_ms,
                                primary_last_center, now_ms)} :
       /\ ut.next_track_id <= MaxTracks + 1
       /\ clock' = now_ms
       /\ frames' = frames + 1
       /\ frame_count' = stats[1] /\ start_time' = stats[2] /\ fps' = stats[3]
       /\ num_hands' = Len(hands_pts2d)
       /\ next_track_id' = ut.next_track_id
       /\ primary_track_id' = sp.primary_track_id
       /\ last_primary_set_ms' = sp.last_primary_set_ms
       /\ primary_last_center' = sp.primary_last_center
       /\ IF sp.idx # NoIdx
          THEN \E pts \in {hands_pts2d[sp.idx]} :
               \E tid \in {ut.assign[sp.idx]} :
               \E armed_in \in {TrackArmed(ut.tracks, tid)} :
               \E inf \in {Infer(pts, FrameW, FrameH, gray, now_ms, lk, armed_in)} :
               /\ prev_gray' = inf.prev_gray
               /\ prev_points' = inf.prev_points
               /\ flow_window_dx' = inf.flow_window_dx
               /\ flow_window_dy' = inf.flow_window_dy
               /\ dy_ema' = inf.dy_ema
               /\ dx_ema' = inf.dx_ema
               /\ dy_gate_high' = inf.dy_gate_high
               /\ dx_gate_high' = inf.dx_gate_high
               /\ last_frame_ms' = inf.last_frame_ms
               /\ dy_hist_norm' = inf.dy_hist_norm
               /\ dy_hist_t' = inf.dy_hist_t
               /\ open_palm_stable_cnt' = inf.open_palm_stable_cnt
               /\ last_motion_cmd_ms' = inf.last_motion_cmd_ms
               /\ open_palm_armed' = inf.open_palm_armed
               /\ tracks' = AfterGesture(ut.tracks, tid, inf.gesture)
               /\ detection_result' =
                      [hand_present |-> Len(hands_pts2d) > 0, num_hands |-> Len(hands_pts2d),
                       gesture |-> inf.gesture, cmd |-> inf.cmd,
                       primary_center |-> PalmCenter(pts), fps |-> stats[3]]
               /\ loc' = [centers |-> centers, areas |-> Areas(hands_pts2d),
                          assign_map |-> ut.assign, primary_det_idx |-> sp.idx,
                          reason |-> sp.reason, tid |-> tid, armed_in |-> armed_in,
                          largest |-> LargestDetection(hands_pts2d),
                          four |-> inf.four, dx_med |-> inf.dx_med, dy_med |-> inf.dy_med,
                          v_thr |-> inf.v_thr, down_path_sum |-> inf.down_path_sum,
                          speed_pass |-> inf.speed_pass, path_pass |-> inf.path_pass,
                          eligible |-> inf.eligible, flow |-> inf.flow]
          ELSE /\ UNCHANGED <<flowVars, inferVars>>
               /\ open_palm_armed' = ArmedWithoutPrimary(open_palm_armed)
               /\ tracks' = ut.tracks
               /\ detection_result' =
                      [hand_present |-> Len(hands_pts2d) > 0, num_hands |-> Len(hands_pts2d),
                       gesture |-> "None", cmd |-> "None",
                       primary_center |-> NoPoint, fps |-> stats[3]]
               /\ loc' = [NoLocals EXCEPT !.centers = centers, !.areas = Areas(hands_pts2d),
                                           !.assign_map = ut.assign]

-----------------------------------------------------------------------------
(* Environment: what the detector and the tracker may answer *)

AnchorCount == Len(anchor_idxs) + 1

\* every anchor found, all displaced by <<dx, dy>> pixels
LkUniform(dx, dy) ==
    [kind |-> "ok", st |-> [k \in 1 .. AnchorCount |-> 1],
     d |-> [k \in 1 .. AnchorCount |-> <<dx, dy>>]]

\* every anchor lost; the positions reported for lost anchors mean nothing
LkLost ==
    [kind |-> "ok", st |-> [k \in 1 .. AnchorCount |-> 0],
     d |-> [k \in 1 .. AnchorCount |-> <<9, -9>>]]

LkRaise == [kind |-> "raise"]

LkStill == LkUniform(0, 0)

-----------------------------------------------------------------------------
(* Open-palm specification: one hand that shows an open palm, leaves and    *)
(* comes back, near or far from where it was.  The scene follows the hand   *)
(* of the last toggle: scene.toggled is its track while it has not been     *)
(* seen on another track, scene.held counts the frames in which it has been *)
(* detected since without a gap, scene.away_ms is the time since it was     *)
(* last detected, scene.returned says that the last frame re-presented it   *)
(* after an absence of at least rearm_ms, scene.toggles counts the toggles, *)
(* scene.last is the input of the last frame and scene.changes the number   *)
(* of frames whose input differed from the frame before.                    *)

PalmNear == <<200, 150>>
PalmFar == <<420, 150>>

PalmInputs ==
    << [dt |-> 33, hands |-> <<Hand(OpenPalmShape, 2, PalmNear)>>],
       [dt |-> 33, hands |-> <<Hand(OpenPalmShape, 2, PalmFar)>>],
       [dt |-> 400, hands |-> <<>>] >>

NoToggled == [toggled |-> NoTrack, held |-> 0, away_ms |-> 0, returned |-> FALSE]

PalmHand(sc, dt_ms) ==
    IF detection_result'.cmd = "toggle"
    THEN [toggles |-> sc.toggles + 1, toggled |-> loc'.tid, held |-> 0, away_ms |-> 0,
          returned |-> FALSE]
    ELSE IF sc.toggled = NoTrack
    THEN [sc EXCEPT !.returned = FALSE]
    ELSE IF num_hands' = 0
    THEN [sc EXCEPT !.away_ms = sc.away_ms + dt_ms]
    ELSE IF sc.away_ms = 0
    THEN IF loc'.tid = sc.toggled
         THEN [sc EXCEPT !.held = sc.held + 1]
         ELSE [toggles |-> sc.toggles] @@ NoToggled
    ELSE [toggles |-> sc.toggles] @@
         [NoToggled EXCEPT !.returned = (sc.away_ms + dt_ms >= rearm_ms)]

PalmScene(sc, k) ==
    [last |-> k,
     changes |-> IF sc.last \in {0, k} THEN sc.changes ELSE sc.changes + 1] @@
    PalmHand([f \in {"toggles", "toggled", "held", "away_ms", "returned"} |-> sc[f]],
             PalmInputs[k].dt)

PalmFrame ==
    \E k \in DOMAIN PalmInputs :
        /\ frames < MaxPalmFrames
        /\ scene.last \in {0, k} \/ scene.changes < MaxPalmChanges
        /\ ProcessFrame(PalmInputs[k].dt, PalmInputs[k].hands, LkStill)
        /\ UNCHANGED <<captureVars, playerVars>>
        /\ scene' = PalmScene(scene, k)

PalmInit ==
    WindowInit /\ scene = [last |-> 0, changes |-> 0, toggles |-> 0] @@ NoToggled

SpecPalm == PalmInit /\ [][PalmFrame]_vars

\* C1: after every process_frame call in which the detector returned no
\* landmark set, the result has num_hands = 0, hand_present = false,
\* gesture = None, cmd = None and primary_center = None, and open_palm_armed
\* is false, whatever frames came before.
NoDetectionResult ==
    (frames > 0 /\ num_hands = 0) =>
        /\ detection_result.num_hands = 0
        /\ detection_result.hand_present = FALSE
        /\ detection_result.gesture = "None"
        /\ detection_result.cmd = "None"
        /\ detection_result.primary_center = NoPoint
        /\ open_palm_armed = FALSE

\* a frame without hands right after the frame of a toggle
NoDetectionAfterToggle ==
    num_hands = 0 /\ scene.toggles = 1 /\ scene.toggled # NoTrack /\ scene.away_ms = 400

\* C4: a frame emits open_palm/toggle only if the track of the primary hand
\* was armed when classification started, and after such a frame that
\* track is not armed.
ToggleNeedsArmedAndDisarms ==
    detection_result.cmd = "toggle" =>
        /\ detection_result.gesture = "open_palm"
        /\ loc.armed_in
        /\ loc.tid \in DOMAIN tracks
        /\ ~tracks[loc.tid].armed

\* the second toggle of a run, on another track than the first
SecondToggle == detection_result.cmd = "toggle" /\ scene.toggles = 2 /\ loc.tid = 2

\* C5: once a hand has emitted toggle, every later frame in which it is
\* detected on the same track, with no frame without it in between, emits
\* no toggle and leaves that track disarmed.
NoRetoggleWhileHeld ==
    [][(scene.toggled # NoTrack /\ scene.away_ms = 0 /\ num_hands' > 0
            /\ loc'.tid = scene.toggled)
        => (detection_result'.cmd # "toggle" /\ ~tracks'[scene.toggled].armed)]_vars

\* the palm held for three more frames after its toggle
HeldAfterToggle == scene.toggles = 1 /\ scene.held = 3 /\ loc.eligible = FALSE

\* C6: when the hand of a toggle has been out of view for at least 400 ms
\* and is detected again, the track it is assigned to is armed.
ReturningHandArmed == scene.returned => (loc.tid # NoTrack /\ loc.armed_in)

\* C18: the armed flag of a track of the map goes from false to true only
\* in a frame in which no detection is matched to the track and the frame
\* is 400 ms or more after the track was last seen; a matched track never
\* becomes armed; every other armed track was armed before the frame or
\* was created by it.
ArmedOnlyByTimeout ==
    [][/\ \A t \in DOMAIN tracks :
             (~tracks[t].armed /\ tracks'[t].armed) =>
                 /\ \A i \in DOMAIN loc'.assign_map : loc'.assign_map[i] # t
                 /\ clock' - tracks[t].last_seen_ms >= 400
       /\ \A t \in DOMAIN tracks' \ DOMAIN tracks :
             /\ \E i \in DOMAIN loc'.assign_map : loc'.assign_map[i] = t
             /\ tracks'[t].last_seen_ms = clock']_vars

\* the track of the first toggle is armed again: seven frames of the near
\* palm, 400 ms without a hand, then the far palm on a new track
FirstTrackReArmed ==
    /\ frames = 9 /\ scene.toggles = 1 /\ scene.returned
    /\ loc.tid = 2 /\ DOMAIN tracks = {1, 2}
    /\ tracks[1].armed /\ clock - tracks[1].last_seen_ms >= 400

-----------------------------------------------------------------------------
(* Primary-lock specification: a fist A and, far from it, a larger pointing *)
(* hand B (in either detection order) or a fist as large as A; frames       *)
(* arrive 300 or 350 ms apart, so that the lock window of 700 ms is met    *)
(* exactly and missed.  scene.kept counts the frames in a row in which the lock window  *)
(* kept the primary although another hand was the largest; scene.switched   *)
(* says that the last frame moved the primary to another track after such   *)
(* frames; scene.stale_match that the last frame matched a detection to a   *)
(* track not seen for rearm_ms or more; scene.absent that the last frame    *)
(* fell inside the lock window while the primary track was not detected.    *)

LockA == Hand(FistShape, 2, <<160, 200>>)
LockB == Hand(PointShape, 3, <<460, 200>>)
LockTie == Hand(FistShape, 2, <<460, 200>>)

LockInputs ==
    { <<>>, <<LockA>>, <<LockA, LockB>>, <<LockB, LockA>>, <<LockA, LockTie>> }

LockDts == {300, 350}

LockKept(sc) ==
    IF loc'.reason = "lock_window" /\ loc'.largest # loc'.primary_det_idx
    THEN [kept |-> sc.kept + 1, switched |-> FALSE]
    ELSE IF /\ loc'.reason = "largest_area"
            /\ primary_track_id # NoTrack
            /\ primary_track_id' # primary_track_id
    THEN [kept |-> 0, switched |-> sc.kept >= 1]
    ELSE [kept |-> 0, switched |-> FALSE]

LockScene(sc) ==
    LockKept(sc) @@
    [stale_match |-> \E i \in DOMAIN loc'.assign_map :
                         /\ loc'.assign_map[i] \in DOMAIN tracks
                         /\ clock' - tracks[loc'.assign_map[i]].last_seen_ms >= rearm_ms,
     absent |-> /\ num_hands' > 0
                /\ LockOpen(primary_track_id, last_primary_set_ms, clock')
                /\ \A i \in DOMAIN loc'.assign_map : loc'.assign_map[i] # primary_track_id]

LockFrame ==
    \E hands \in LockInputs, dt \in LockDts :
        /\ frames < MaxLockFrames
        /\ ProcessFrame(dt, hands, LkStill)
        /\ UNCHANGED <<captureVars, playerVars>>
        /\ scene' = LockScene(scene)

LockInit ==
    WindowInit /\ scene = [kept |-> 0, switched |-> FALSE, stale_match |-> FALSE,
                           absent |-> FALSE]

SpecLock == LockInit /\ [][LockFrame]_vars

\* C8: when a primary track exists, fewer than 700 ms have passed since
\* last_primary_set and the track is among the frame's assignments, its
\* detection is returned as primary, and primary_track_id and
\* last_primary_set are left as they were, whichever hand is the largest.
LockKeepsPrimary ==
    [][(/\ primary_track_id # NoTrack
        /\ clock' - last_primary_set_ms < primary_lock_ms
        /\ \E i \in DOMAIN loc'.assign_map : loc'.assign_map[i] = primary_track_id)
       => (/\ loc'.primary_det_idx \in DOMAIN loc'.assign_map
           /\ loc'.assign_map[loc'.primary_det_idx] = primary_track_id
           /\ loc'.tid = primary_track_id
           /\ primary_track_id' = primary_track_id
           /\ last_primary_set_ms' = last_primary_set_ms)]_vars

\* the primary kept twice in a row against a larger hand
KeptAgainstLarger == scene.kept = 2 /\ loc.reason = "lock_window" /\ num_hands = 2

\* C9: on a frame with a hand in view at which 700 ms or more have passed
\* since last_primary_set, the largest hand becomes primary and
\* last_primary_set is set to the frame's time; a frame in which the lock
\* window keeps the primary leaves last_primary_set alone.
LockExpires ==
    [][/\ (num_hands' > 0 /\ primary_track_id # NoTrack
            /\ clock' - last_primary_set_ms >= primary_lock_ms)
          => (/\ loc'.primary_det_idx = loc'.largest
              /\ primary_track_id' = loc'.assign_map[loc'.largest]
              /\ last_primary_set_ms' = clock')
       /\ (loc'.reason = "lock_window") => (last_primary_set_ms' = last_primary_set_ms)]_vars

\* the primary moved to the larger hand exactly 700 ms after it was set,
\* after a frame in which the lock window kept it
SwitchedAtExpiry ==
    /\ scene.switched
    /\ primary_track_id = 2
    /\ last_primary_set_ms = clock
    /\ clock = 100000 + 350 + 2 * 350

\* C10: after a frame with at least one detected hand one detection index
\* is the primary and primary_center is set; after a frame with no hand
\* there is no primary; primary_track_id is None or the id of an entry of
\* the track map.
OnePrimary ==
    /\ (frames > 0 /\ num_hands > 0) =>
           (loc.primary_det_idx \in 1 .. num_hands
            /\ detection_result.primary_center # NoPoint)
    /\ (frames > 0 /\ num_hands = 0) =>
           (loc.primary_det_idx = NoIdx /\ detection_result.primary_center = NoPoint)
    /\ primary_track_id = NoTrack \/ primary_track_id \in DOMAIN tracks

\* two hands of equal area in view, the first one primary by the tie rule
TieTakesFirst ==
    /\ num_hands = 2
    /\ loc.reason = "largest_area"
    /\ loc.primary_det_idx = 1
    /\ BBoxArea(LockA) = BBoxArea(LockTie)
    /\ loc.assign_map = <<1, 2>>
    /\ tracks[2].center = PalmCenter(LockTie)
    /\ tracks[2].last_seen_ms = clock

\* the tracks of the map trk that no detection before the i-th was assigned
UnmatchedBefore(trk, assign, i) == DOMAIN trk \ {assign[j] : j \in 1 .. i - 1}

\* the number of detections before the i-th that were given a new track
CreatedBefore(trk, assign, i) ==
    Cardinality({j \in 1 .. i - 1 : assign[j] \notin DOMAIN trk})

\* C16: _update_tracks takes the detected centers in detection order; a
\* center is assigned to the track at minimum Euclidean distance among the
\* tracks not matched by an earlier detection when that distance is at most
\* 120 px, and the center and last_seen of that track are updated, whatever
\* the age of the track; otherwise a track with id next_track_id and
\* armed = true is created.
GreedyNearestAssignment ==
    [][(frames' = frames + 1 /\ num_hands' > 0) =>
          /\ Len(loc'.assign_map) = num_hands'
          /\ \A i \in DOMAIN loc'.assign_map :
                LET c == loc'.centers[i]
                    t == loc'.assign_map[i]
                    free == UnmatchedBefore(tracks, loc'.assign_map, i)
                IN IF \E u \in free : Dist2(c, tracks[u].center) <= 120 * 120
                   THEN /\ t \in free
                        /\ \A u \in free :
                              Dist2(c, tracks[t].center) <= Dist2(c, tracks[u].center)
                        /\ tracks'[t].center = c
                        /\ tracks'[t].last_seen_ms = clock'
                   ELSE /\ t = next_track_id + CreatedBefore(tracks, loc'.assign_map, i)
                        /\ tracks'[t] = [center |-> c, last_seen_ms |-> clock',
                                         armed |-> TRUE]]_vars

\* a hand matched to the track it had 600 ms or more before, beside a hand
\* that got a new track
StaleTrackMatched ==
    /\ scene.stale_match
    /\ num_hands = 2 /\ loc.assign_map = <<1, 2>>
    /\ tracks[2].last_seen_ms = clock /\ next_track_id = 3
    /\ frames = 3

\* C17: no track is removed and no id is used twice: over every frame the
\* set of track ids only grows, a new id is greater than every id that
\* existed, and next_track_id is greater than every id in the map.
TrackIdsOnlyGrow ==
    [][/\ DOMAIN tracks \subseteq DOMAIN tracks'
       /\ \A t \in DOMAIN tracks' \ DOMAIN tracks :
             /\ \A u \in DOMAIN tracks : t > u
             /\ t >= next_track_id
       /\ \A t \in DOMAIN tracks' : t < next_track_id']_vars

\* a track not seen for 1000 ms or more is still in the map, beside a
\* younger one
OldTrackKept ==
    /\ DOMAIN tracks = {1, 2} /\ next_track_id = 3
    /\ clock - tracks[2].last_seen_ms >= 1000
    /\ tracks[1].last_seen_ms = clock

\* C20: when no primary exists, the lock window has expired or the primary
\* track is not among the detections of the frame, _select_primary returns
\* the detection of largest bounding-box area, the first in detection order
\* on a tie, makes its track the primary and sets last_primary_set to the
\* time of the frame.
LargestBecomesPrimary ==
    [][(/\ frames' = frames + 1 /\ num_hands' > 0
        /\ \/ primary_track_id = NoTrack
           \/ clock' - last_primary_set_ms >= 700
           \/ \A i \in DOMAIN loc'.assign_map : loc'.assign_map[i] # primary_track_id)
       => \E i \in DOMAIN loc'.areas :
             /\ \A j \in DOMAIN loc'.areas : loc'.areas[j] <= loc'.areas[i]
             /\ \A j \in 1 .. i - 1 : loc'.areas[j] < loc'.areas[i]
             /\ loc'.primary_det_idx = i
             /\ primary_track_id' = loc'.assign_map[i]
             /\ last_primary_set_ms' = clock']_vars

\* inside the lock window the primary track was not detected and the only
\* hand in view took its place
AbsentPrimaryReplaced ==
    /\ scene.absent
    /\ num_hands = 1 /\ DOMAIN tracks = {1, 2}
    /\ primary_track_id = 1 /\ last_primary_set_ms = clock
    /\ clock - tracks[2].last_seen_ms < 700

-----------------------------------------------------------------------------
(* Two-hand specification: two fists A and B on one horizontal line, seen   *)
(* in every frame from the first frame of a fresh recognizer, more than     *)
(* match_dist_px apart in every frame.  Between two frames each hand stays  *)
(* or moves by 60 or 61 px to another of the positions PairXs; the detector *)
(* lists the hands in either order.  Once a track id has changed the hands  *)
(* rest, listed in the same order, for the remaining frames.                *)
(* scene.a and scene.b are the x-coordinates of the palm centres,           *)
(* scene.ida and scene.idb the track ids of the first frame, scene.stable   *)
(* says that every frame so far assigned these ids and that they differ,    *)
(* scene.calm that no hand has moved by more than match_dist_px / 2 between *)
(* two frames, scene.b_first that the last frame listed B first.            *)

PairY == 180
PairXs == {100, 160, 220, 221, 281, 341, 342, 402}
PairMoves == {-61, -60, 0, 60, 61}

PairHand(x) == Hand(FistShape, 1, <<x, PairY>>)

PairApart(a, b) == Dist2(<<a, PairY>>, <<b, PairY>>) > match_dist_px * match_dist_px

PairScene(sc, a, b, b_first) ==
    LET id_a == loc'.assign_map[IF b_first THEN 2 ELSE 1]
        id_b == loc'.assign_map[IF b_first THEN 1 ELSE 2]
    IN IF frames = 0
       THEN [a |-> a, b |-> b, b_first |-> b_first, ida |-> id_a, idb |-> id_b,
             stable |-> id_a # id_b, calm |-> TRUE]
       ELSE [a |-> a, b |-> b, b_first |-> b_first, ida |-> sc.ida, idb |-> sc.idb,
             stable |-> sc.stable /\ id_a = sc.ida /\ id_b = sc.idb,
             calm |-> /\ sc.calm
                      /\ 2 * Abs(a - sc.a) <= match_dist_px
                      /\ 2 * Abs(b - sc.b) <= match_dist_px]

PairFrame ==
    \E da \in PairMoves, db \in PairMoves, b_first \in BOOLEAN :
        \E a \in {scene.a + (IF frames = 0 THEN 0 ELSE da)} :
        \E b \in {scene.b + (IF frames = 0 THEN 0 ELSE db)} :
            /\ frames < MaxPairFrames
            /\ scene.stable \/ (a = scene.a /\ b = scene.b /\ b_first = scene.b_first)
            /\ a \in PairXs /\ b \in PairXs
            /\ PairApart(a, b)
            /\ ProcessFrame(33, IF b_first THEN <<PairHand(b), PairHand(a)>>
                                 ELSE <<PairHand(a), PairHand(b)>>, LkStill)
            /\ UNCHANGED <<captureVars, playerVars>>
            /\ scene' = PairScene(scene, a, b, b_first)

PairInit ==
    WindowInit /\ scene = [a |-> 160, b |-> 281, b_first |-> FALSE, ida |-> NoTrack,
                               idb |-> NoTrack, stable |-> TRUE, calm |-> TRUE]

SpecPair == PairInit /\ [][PairFrame]_vars

\* C7, as stated: two hands detected in every frame of a sequence of at
\* least 10 frames, more than 120 px apart in every frame, keep the track
\* ids of the first frame, and the two ids differ, whatever the detection
\* order and the movement of the hands.
PairIdsStable == frames >= 10 => scene.stable

\* C7, amended: from a fresh recognizer, two hands detected in every frame,
\* more than 120 px apart in every frame, each moving at most 60 px between
\* two frames, keep the track ids of the first frame, and the two ids
\* differ, whatever the detection order.
CalmPairIdsStable == scene.calm => scene.stable

\* eleven calm frames after which both hands have moved and B is listed
\* first
CalmPairMoved ==
    /\ frames = 11 /\ scene.calm /\ scene.stable
    /\ scene.a = 220 /\ scene.b = 341
    /\ scene.ida = 1 /\ loc.assign_map = <<2, 1>>

\* C19: in every frame the assignment returned by _update_tracks gives
\* each detection index one track id of the track map, and no two
\* detections of the frame the same id.
AssignmentTotalInjective ==
    /\ Len(loc.assign_map) = num_hands
    /\ \A i \in DOMAIN loc.assign_map : loc.assign_map[i] \in DOMAIN tracks
    /\ \A i, j \in DOMAIN loc.assign_map :
          loc.assign_map[i] = loc.assign_map[j] => i = j

\* a hand moved next to the track of the other and took it; the other hand
\* got a new track
TrackTakenOtherFresh ==
    /\ num_hands = 2 /\ DOMAIN tracks = {1, 2, 3}
    /\ loc.assign_map = <<2, 3>>
    /\ ~scene.stable

-----------------------------------------------------------------------------
(* Swipe specification: one pointing hand of width 80 px, frames 33 ms      *)
(* apart.  In each frame the tracker reports the hand 3 px lower (a         *)
(* normalised speed of 1.136, above the downward threshold 1.08), 6 px      *)
(* higher, or at rest, or loses every anchor, or fails; the landmarks       *)
(* follow the reported motion.  In at most MaxSwipeGaps frames, while the   *)
(* vertical gate is latched, the detector finds no hand; scene.gaps counts  *)
(* them.  scene.y is the height of the palm centre.                         *)
(* scene.steady says that every frame so far reported the 3 px descent and  *)
(* scene.downs counts the vol_down commands.  scene.latched says that a     *)
(* vertical swipe has been emitted and no frame since, the last one         *)
(* included, had |dy_ema| below 80% of scene.thr, the threshold of that     *)
(* swipe; scene.refired says that the last frame emitted a vertical swipe   *)
(* while latched.                                                           *)

SwipeX == 320
SwipeY0 == 150
SwipeDown == 3
SwipeUp == -6

SwipeHand(y) == Hand(PointShape, 2, <<SwipeX, y>>)

SwipeFlows ==
    { [dy |-> SwipeDown, lk |-> LkUniform(0, SwipeDown), seen |-> TRUE],
      [dy |-> SwipeUp, lk |-> LkUniform(0, SwipeUp), seen |-> TRUE],
      [dy |-> 0, lk |-> LkStill, seen |-> TRUE],
      [dy |-> 0, lk |-> LkLost, seen |-> TRUE],
      [dy |-> 0, lk |-> LkRaise, seen |-> TRUE],
      [dy |-> 0, lk |-> LkStill, seen |-> FALSE] }

SwipeScene(sc, fl) ==
    LET vertical == detection_result'.cmd \in {"vol_up", "vol_down"}
        released == sc.latched /\ hysteresis_ratio[2] * Abs(dy_ema') < hysteresis_ratio[1] * sc.thr
        still == sc.latched /\ ~released
    IN [y |-> sc.y + fl.dy,
        gaps |-> sc.gaps + (IF fl.seen THEN 0 ELSE 1),
        steady |-> sc.steady /\ fl.dy = SwipeDown /\ fl.lk.kind = "ok" /\ fl.seen,
        downs |-> sc.downs + (IF detection_result'.cmd = "vol_down" THEN 1 ELSE 0),
        latched |-> vertical \/ still,
        thr |-> IF vertical THEN loc'.v_thr ELSE sc.thr,
        refired |-> vertical /\ still]

SwipeFrame ==
    \E fl \in SwipeFlows :
        /\ frames < MaxSwipeFrames
        /\ fl.seen \/ (scene.gaps < MaxSwipeGaps /\ dy_gate_high)
        /\ ProcessFrame(33, IF fl.seen THEN <<SwipeHand(scene.y + fl.dy)>> ELSE <<>>, fl.lk)
        /\ UNCHANGED <<captureVars, playerVars>>
        /\ scene' = SwipeScene(scene, fl)

SwipeInit ==
    WindowInit /\ scene = [y |-> SwipeY0, gaps |-> 0, steady |-> TRUE, downs |-> 0,
                           latched |-> FALSE, thr |-> 0, refired |-> FALSE]

SpecSwipe == SwipeInit /\ [][SwipeFrame]_vars

\* C2: after a vertical swipe no later frame emits a vertical swipe unless a
\* frame after the swipe (the emitting frame included) had |dy_ema| below
\* 80% of the threshold the swipe was triggered with, whether the trigger
\* passed by speed or by the downward path sum.
NoRefireWhileLatched == ~scene.refired

\* C3: a run of frames of constant downward speed above the threshold
\* emits vol_down at most once.
SteadyDescentOneSwipe == scene.steady => scene.downs <= 1

\* C13: a frame in which no hand is detected leaves dy_ema, dx_ema, both
\* gate flags, both flow windows, the downward-path history, the track map
\* and primary_track_id as they were, and every other field of the
\* recognizer too, except num_hands, open_palm_armed and the frame-rate
\* counters.
NoHandFrameKeepsState ==
    [][(frames' = frames + 1 /\ num_hands' = 0) =>
          /\ UNCHANGED <<dy_ema, dx_ema, dy_gate_high, dx_gate_high,
                         flow_window_dx, flow_window_dy, dy_hist_norm, dy_hist_t,
                         tracks, primary_track_id>>
          /\ UNCHANGED <<flowVars, inferVars, trackVars>>
          /\ ~open_palm_armed']_vars

\* the detector found no hand while the vertical gate was latched and the
\* windows, the history and the track map were filled
GapWhileLatched ==
    /\ num_hands = 0 /\ scene.gaps = 1
    /\ dy_gate_high /\ dy_ema > 0
    /\ Len(flow_window_dy) = flow_window_len /\ dy_hist_norm # <<>>
    /\ primary_track_id = 1 /\ 1 \in DOMAIN tracks

-----------------------------------------------------------------------------
(* Robust-median specification: _robust_median applied to one list of       *)
(* deltas.  The list is either nine deltas, eight of them 1, 2 or 3 px and  *)
(* one an outlier of 500 or 2000 px at the head, the middle or the end of   *)
(* the list, or a short list of up to three deltas.  scene.values is the    *)
(* list (in 1/FlowUnit px), scene.near its eight small deltas, scene.at the *)
(* place of the outlier (0 for a short list), scene.result the value        *)
(* returned, once scene.called.                                             *)

MedianNear == {1, 2, 3}
MedianOutliers == {500, 2000}
MedianSlots == {1, 5, 9}
MedianShort == {-2, 0, 1, 5}

\* seq with v inserted so that it becomes entry k
InsertAt(seq, k, v) == SubSeq(seq, 1, k - 1) \o <<v>> \o SubSeq(seq, k, Len(seq))

\* whole pixels as float deltas in units of 1/FlowUnit px
Deltas(px) == [k \in DOMAIN px |-> FlowUnit * px[k]]

MedianInputs ==
    { [values |-> InsertAt(Deltas(near), at, FlowUnit * o), near |-> Deltas(near), at |-> at] :
          near \in [1 .. 8 -> MedianNear], at \in MedianSlots, o \in MedianOutliers }
    \cup
    { [values |-> Deltas(px), near |-> <<>>, at |-> 0] :
          px \in UNION { [1 .. n -> MedianShort] : n \in 0 .. 3 } }

MedianInit ==
    /\ WindowInit
    /\ \E in \in MedianInputs : scene = in @@ [called |-> FALSE, result |-> 0]

MedianCall ==
    /\ ~scene.called
    /\ scene' = [scene EXCEPT !.called = TRUE, !.result = RobustMedian(scene.values)]
    /\ UNCHANGED <<recognizerVars, captureVars, playerVars, clock>>

SpecMedian == MedianInit /\ [][MedianCall]_vars

\* v lies within 1.5 x (q3 - q1) of the raw median of values
PassesIqr(values, v) ==
    2 * 4 * Abs(v - Median(values)) <= 3 * (Percentile4(values, 3) - Percentile4(values, 1))

\* the entries of sub that lie within 1.5 x IQR of the raw median of values
KeptOf(values, sub) == SelectSeq(sub, LAMBDA v : PassesIqr(values, v))

WithinIqr(values) == KeptOf(values, values)

\* values with entry k replaced by v
Replaced(values, k, v) == [values EXCEPT ![k] = v]

\* C11, as stated: the value returned is the median of the values within
\* 1.5 x IQR of the raw median, and for nine deltas of which eight are near
\* 2 and one is an outlier it is the median of the eight near 2, whatever
\* the outlier.
MedianOfEightInliers ==
    scene.called =>
        /\ scene.values # <<>> => scene.result = Median(WithinIqr(scene.values))
        /\ scene.at # 0 =>
               /\ scene.result = Median(scene.near)
               /\ \A o \in MedianOutliers :
                      RobustMedian(Replaced(scene.values, scene.at, FlowUnit * o)) = scene.result

\* C11, amended: the value returned is 0 for an empty list and otherwise
\* the median of the values within 1.5 x IQR of the raw median; for nine
\* deltas of which eight are near 2 and one is an outlier, the outlier is
\* not among these values, the value returned is the median of those of the
\* eight that are, lies between the smallest and the largest of the eight,
\* and is the same whatever the outlier.
MedianOfKeptInliers ==
    scene.called =>
        /\ scene.values = <<>> => scene.result = 0
        /\ scene.values # <<>> => scene.result = Median(WithinIqr(scene.values))
        /\ scene.at # 0 =>
               /\ ~PassesIqr(scene.values, scene.values[scene.at])
               /\ Len(KeptOf(scene.values, scene.near)) >= 5
               /\ scene.result = Median(KeptOf(scene.values, scene.near))
               /\ scene.result >= FlowUnit * 1 /\ scene.result <= FlowUnit * 3
               /\ \A o \in MedianOutliers :
                      RobustMedian(Replaced(scene.values, scene.at, FlowUnit * o)) = scene.result

\* nine deltas 1, 2, 2, 2, 500, 3, 3, 3, 3: the filter drops 500 and 1, and
\* the value returned is 3, not the median 2.5 of the eight
NearValueDropped ==
    /\ scene.called
    /\ scene.values = Deltas(<<1, 2, 2, 2, 500, 3, 3, 3, 3>>)
    /\ WithinIqr(scene.values) = Deltas(<<2, 2, 2, 3, 3, 3, 3>>)
    /\ scene.result = FlowUnit * 3
    /\ 2 * Median(scene.near) = FlowUnit * 5

-----------------------------------------------------------------------------
(* VideoCaptureThread: start_capture and one iteration of the loop of run.  *)
(* The camera's read, the detector and the tracker are the environment; an  *)
(* exception inside process_frame is given by the call that raises it:      *)
(* "cvtColor" (lines 378-379), "hands.process" (line 393, caught by         *)
(* process_frame itself), "_update_tracks", "_select_primary" or "_infer"   *)
(* (raised on entry, before the call has written anything).                 *)

detection_fps == 15
hud_frames == 5
fps_period_ms == 1000

RaisingCalls == {"cvtColor", "_update_tracks", "_select_primary", "_infer"}

\* start_capture, lines 108-116, with a camera that opens; MainWindow calls
\* it while the camera is off (toggle_camera)
StartCapture ==
    /\ ~running
    /\ running' = TRUE
    /\ thread_frame_count' = 0
    /\ thread_fps' = 0
    /\ last_fps_time' = clock
    /\ last_detect_time' = 0
    /\ UNCHANGED <<hands_open, detecting, last_command, frame_remain, command_remain, status,
                   cmd_queue>>
    /\ UNCHANGED <<recognizerVars, clock>>

\* stop_capture, called by MainWindow.stop_camera while the camera is on:
\* the loop ends and _safe_release_capture closes the recognizer (lines
\* 161-167; close sets hands to None)
StopCapture ==
    /\ running
    /\ running' = FALSE
    /\ hands_open' = FALSE
    /\ UNCHANGED <<detecting, last_command, last_detect_time, thread_frame_count, thread_fps,
                   last_fps_time, frame_remain, command_remain, status, cmd_queue>>
    /\ UNCHANGED <<recognizerVars, clock>>

\* toggle_detection
ToggleDetection(flag) ==
    /\ detecting' = flag
    /\ UNCHANGED <<hands_open, running, last_command, last_detect_time, thread_frame_count,
                   thread_fps, last_fps_time, frame_remain, command_remain, status, cmd_queue>>
    /\ UNCHANGED <<recognizerVars, clock>>

\* process_frame left by an exception raised by the call named stage: what
\* the calls before it have written stays written, nothing is returned
ProcessFrameRaises(dt_ms, found, stage) ==
    LET now_ms == clock + dt_ms
        hands_pts2d == Detected(hands_open, found)
        centers == [i \in DOMAIN hands_pts2d |-> PalmCenter(hands_pts2d[i])]
    IN \E stats \in {FrameStats(frame_count, start_time, fps, now_ms)} :
       \E ut \in {IF centers # <<>>
                  THEN UpdateTracks(tracks, next_track_id, centers, now_ms)
                  ELSE NoCenters(tracks, next_track_id, now_ms)} :
       \E sp \in {SelectPrimary(hands_pts2d, ut.assign, primary_track_id, last_primary_set_ms,
                                primary_last_center, now_ms)} :
       /\ stage \in RaisingCalls
       /\ stage = "cvtColor" \/ hands_pts2d # <<>>
       /\ ut.next_track_id <= MaxTracks + 1
       /\ clock' = now_ms
       /\ frames' = frames + 1
       /\ IF stage = "cvtColor"
          THEN UNCHANGED <<statVars, num_hands>>
          ELSE /\ frame_count' = stats[1] /\ start_time' = stats[2] /\ fps' = stats[3]
               /\ num_hands' = Len(hands_pts2d)
       /\ IF stage \in {"_select_primary", "_infer"}
          THEN tracks' = ut.tracks /\ next_track_id' = ut.next_track_id
          ELSE UNCHANGED <<tracks, next_track_id>>
       /\ IF stage = "_infer"
          THEN /\ primary_track_id' = sp.primary_track_id
               /\ last_primary_set_ms' = sp.last_primary_set_ms
               /\ primary_last_center' = sp.primary_last_center
               /\ open_palm_armed' = TrackArmed(ut.tracks, ut.assign[sp.idx])
          ELSE UNCHANGED <<primary_track_id, last_primary_set_ms, primary_last_center,
                           open_palm_armed>>
       /\ UNCHANGED <<flowVars, inferVars, detection_result>>
       /\ loc' = NoLocals

\* lines 238-247: the loop's frame rate, as <<frame_count, last_fps_time, fps>>
ThreadStats(count, last, rate, now_ms) ==
    IF now_ms - last >= fps_period_ms
    THEN <<0, now_ms, RDiv((count + 1) * 1000000, now_ms - last)>>
    ELSE <<count + 1, last, rate>>

\* lines 259-263: detection is enabled and 1 / detection_fps s have passed
RunDetection(enabled, last_ms, now_ms) ==
    enabled /\ detection_fps * (now_ms - last_ms) >= 1000

\* line 294: the command that is emitted, "None" when none is
Forwarded(command, last) == IF command # "None" /\ command # last THEN command ELSE "None"

\* cmd_hud, as <<frame_remain, command_remain>>
CmdHud(cmd, remain, text) ==
    IF cmd = "None"
    THEN IF remain >= 0 THEN <<remain - 1, text>> ELSE <<remain, text>>
    ELSE <<hud_frames, cmd>>

\* faulty variant: the exception ends the loop (line 341)
LoopBroken(run) == FALSE

\* lines 302-307: the exception is caught inside the iteration
LoopAfterFault(run) == run

\* lines 265-313 and 326 after a call of process_frame that returned
AfterDetection ==
    \E fwd \in {Forwarded(detection_result'.cmd, last_command)} :
    \E hud \in {CmdHud(detection_result'.cmd, frame_remain, command_remain)} :
        /\ status' = detection_result'
        /\ cmd_queue' = IF fwd # "None" THEN Append(cmd_queue, fwd) ELSE cmd_queue
        /\ last_command' = IF fwd # "None" THEN fwd ELSE last_command
        /\ frame_remain' = hud[1] /\ command_remain' = hud[2]
        /\ running' = running

\* the same lines when process_frame raised (run' tells whether the loop
\* goes on) or was not called
WithoutDetection(run) ==
    \E hud \in {CmdHud("None", frame_remain, command_remain)} :
        /\ status' = <<>>
        /\ UNCHANGED <<cmd_queue, last_command>>
        /\ frame_remain' = hud[1] /\ command_remain' = hud[2]
        /\ running' = run

\* One iteration of the loop of run, dt_ms after the previous one.  read_ok:
\* the camera delivered a frame; hands_pts2d, lk: the answers of the
\* detector and the tracker; stage: "none" or the call of process_frame
\* that raises.
CaptureStep(dt_ms, read_ok, hands_pts2d, lk, stage) ==
    LET now_ms == clock + dt_ms
        run_detection == RunDetection(detecting, last_detect_time, now_ms)
        tstats == ThreadStats(thread_frame_count, last_fps_time, thread_fps, now_ms)
    IN /\ running
       /\ IF ~read_ok
          THEN clock' = now_ms /\ UNCHANGED <<recognizerVars, captureVars>>
          ELSE /\ thread_frame_count' = tstats[1]
               /\ last_fps_time' = tstats[2]
               /\ thread_fps' = tstats[3]
               /\ last_detect_time' = IF run_detection THEN now_ms ELSE last_detect_time
               /\ UNCHANGED <<detecting, hands_open>>
               /\ IF run_detection /\ stage = "none"
                  THEN ProcessFrame(dt_ms, hands_pts2d, lk) /\ AfterDetection
                  ELSE IF run_detection /\ stage = "hands.process"
                  THEN ProcessFrame(dt_ms, <<>>, lk) /\ AfterDetection
                  ELSE IF run_detection
                  THEN /\ ProcessFrameRaises(dt_ms, hands_pts2d, stage)
                       /\ WithoutDetection(LoopAfterFault(running))
                  ELSE /\ clock' = now_ms
                       /\ UNCHANGED recognizerVars
                       /\ WithoutDetection(running)

-----------------------------------------------------------------------------
(* Capture specification: the capture loop in front of one open palm, one   *)
(* iteration every 70 ms (so that detection runs in each).  The palm is     *)
(* shown at PalmNear and moves to the other of PalmNear and PalmFar each    *)
(* time process_frame has returned a command.  An iteration may be          *)
(* disturbed: the camera delivers no frame, the iteration comes only 30 ms  *)
(* after the one before (detection is skipped), a call inside process_frame *)
(* raises, or detection is switched off or on.  scene.steps counts the      *)
(* iterations, scene.disturbed the disturbances, scene.fault is the call    *)
(* that raised in the last iteration ("none" if none did), scene.faults     *)
(* counts the iterations in which a call raised and scene.returned the      *)
(* commands that process_frame has returned.                                *)

MaxCaptureSteps == 15
MaxDisturbed == 1

frame_interval_ms == 70
short_interval_ms == 30

CaptureHands(sc) ==
    <<Hand(OpenPalmShape, 2, IF sc.returned % 2 = 0 THEN PalmNear ELSE PalmFar)>>

CaptureScene(sc, disturbed, stage) ==
    [steps |-> sc.steps + 1,
     disturbed |-> sc.disturbed + (IF disturbed THEN 1 ELSE 0),
     fault |-> stage,
     faults |-> sc.faults + (IF stage # "none" THEN 1 ELSE 0),
     returned |-> sc.returned
                  + (IF frames' # frames /\ stage \in {"none", "hands.process"}
                        /\ detection_result'.cmd # "None" THEN 1 ELSE 0)]

\* the camera is turned on
CaptureStart == StartCapture /\ UNCHANGED <<playerVars, scene>>

\* an undisturbed iteration
CaptureFrame ==
    /\ scene.steps < MaxCaptureSteps
    /\ CaptureStep(frame_interval_ms, TRUE, CaptureHands(scene), LkStill, "none")
    /\ scene' = CaptureScene(scene, FALSE, "none")
    /\ UNCHANGED playerVars

\* an iteration in which a call of process_frame raises
CaptureFault ==
    \E stage \in RaisingCalls \cup {"hands.process"} :
        /\ scene.steps < MaxCaptureSteps
        /\ scene.disturbed < MaxDisturbed
        /\ RunDetection(detecting, last_detect_time, clock + frame_interval_ms)
        /\ CaptureStep(frame_interval_ms, TRUE, CaptureHands(scene), LkStill, stage)
        /\ scene' = CaptureScene(scene, TRUE, stage)
        /\ UNCHANGED playerVars

\* an iteration without a frame, or too early for detection
CaptureIdle ==
    \E read_ok \in BOOLEAN :
        /\ scene.steps < MaxCaptureSteps
        /\ scene.disturbed < MaxDisturbed
        /\ CaptureStep(short_interval_ms, read_ok, CaptureHands(scene), LkStill, "none")
        /\ scene' = CaptureScene(scene, TRUE, "none")
        /\ UNCHANGED playerVars

\* the detection check box is clicked
CaptureToggle ==
    /\ scene.disturbed < MaxDisturbed
    /\ ToggleDetection(~detecting)
    /\ scene' = [scene EXCEPT !.disturbed = scene.disturbed + 1]
    /\ UNCHANGED playerVars

CaptureInit ==
    WindowInit /\ scene = [steps |-> 0, disturbed |-> 0, fault |-> "none", faults |-> 0,
                           returned |-> 0]

CaptureNext == CaptureStart \/ CaptureFrame \/ CaptureFault \/ CaptureIdle \/ CaptureToggle

SpecCapture == CaptureInit /\ [][CaptureNext]_vars

\* a detection result without hand, gesture, command and primary centre
NeutralStatus(st) ==
    \/ st = <<>>
    \/ /\ st.hand_present = FALSE /\ st.num_hands = 0
       /\ st.gesture = "None" /\ st.cmd = "None" /\ st.primary_center = NoPoint

\* C12: an iteration in which a call inside process_frame raises emits an
\* empty or neutral detection status, forwards no command and leaves the
\* loop running, so that the following frames are processed.
FaultFrameIsNeutral ==
    [][scene'.fault # "none" =>
           /\ NeutralStatus(status')
           /\ cmd_queue' = cmd_queue
           /\ last_command' = last_command
           /\ running']_vars

\* a toggle forwarded by an iteration that follows one in which a call
\* inside process_frame raised
ToggleAfterFault ==
    /\ scene.faults = 1 /\ scene.fault = "none"
    /\ status # <<>> /\ status.cmd = "toggle"
    /\ cmd_queue = <<"toggle">>
    /\ running
    /\ frames = 8

\* C14: every command that process_frame returns is forwarded through
\* command_detected, also when it equals the command forwarded before.
EveryCommandForwarded == Len(cmd_queue) = scene.returned

-----------------------------------------------------------------------------
(* Video player (video_player.py) and command handler (main.py).  A clip is *)
(* [duration, fps]: its duration in ms and its frame rate, 0 when the file  *)
(* declares none.  The methods of VideoPlayerThread are operators on the    *)
(* record p of its fields; every method body runs under the player's lock.  *)

seek_step_ms == 5000
default_fps == 30

\* the fields of VideoPlayerThread as a record
Player ==
    [video_duration |-> video_duration, video_fps |-> video_fps,
     total_frames |-> total_frames, current_frame |-> current_frame,
     playing |-> playing, paused |-> paused, stopped |-> stopped]

\* the fields after a method returned p
SetPlayer(p) ==
    /\ video_duration' = p.video_duration
    /\ video_fps' = p.video_fps
    /\ total_frames' = p.total_frames
    /\ current_frame' = p.current_frame
    /\ playing' = p.playing
    /\ paused' = p.paused
    /\ stopped' = p.stopped

\* line 59: int(video_duration * video_fps)
TotalFrames(duration_ms, rate) == (duration_ms * rate) \div 1000

\* load_video, when VideoFileClip opens the file
LoadVideo(p, clip) ==
    [video_duration |-> clip.duration,
     video_fps |-> IF clip.fps # 0 THEN clip.fps ELSE default_fps,
     total_frames |-> TotalFrames(clip.duration,
                                  IF clip.fps # 0 THEN clip.fps ELSE default_fps),
     current_frame |-> 0,
     playing |-> FALSE, paused |-> FALSE, stopped |-> TRUE]

Play(p) == [p EXCEPT !.playing = TRUE, !.paused = FALSE, !.stopped = FALSE]

\* faulty variant: pause leaves playing set
PauseStillPlaying(p) == [p EXCEPT !.paused = TRUE]

Pause(p) == [p EXCEPT !.paused = TRUE, !.playing = FALSE]

Stop(p) ==
    [p EXCEPT !.playing = FALSE, !.paused = FALSE, !.stopped = TRUE, !.current_frame = 0]

\* get_position as the fraction <<numerator, denominator>>
GetPosition(p) ==
    IF p.total_frames > 0 THEN <<p.current_frame, p.total_frames>> ELSE <<0, 1>>

\* faulty variant: the frame is clamped to total_frames
ClampToTotal(frame_number, total) == Max(0, Min(frame_number, total))

\* line 342: max(0, min(frame_number, total_frames - 1))
ClampFrame(frame_number, total) == Max(0, Min(frame_number, total - 1))

\* seek
Seek(p, frame_number) ==
    [p EXCEPT !.current_frame = ClampFrame(frame_number, p.total_frames)]

\* one pass of the playback loop that found the player playing, elapsed_ms
\* after the pass before
RunPass(p, elapsed_ms) ==
    LET frame == Min(p.current_frame + (elapsed_ms * p.video_fps) \div 1000,
                     p.total_frames - 1)
    IN IF frame >= p.total_frames - 1
       THEN [p EXCEPT !.current_frame = frame, !.playing = FALSE, !.stopped = TRUE]
       ELSE [p EXCEPT !.current_frame = frame]

\* handle_command, lines 597-601: the frames int() may return.  With
\* pos = GetPosition(p), new_pos / video_duration * total_frames is, in
\* exact arithmetic, num / (video_duration * pos[2]) for the num below; the
\* floating-point quotient of an exact integer lies on either side of it,
\* elsewhere int() returns the floor.  new_pos = 0.0 and
\* new_pos = video_duration give 0 and total_frames exactly.
TargetFrames(p, command) ==
    IF p.video_duration > 0
    THEN LET pos == GetPosition(p)
             den == p.video_duration * pos[2]
             delta == IF command = "seek_forward" THEN seek_step_ms ELSE -seek_step_ms
             cur == pos[1] * p.video_duration
             new_pos == Max(0, Min(p.video_duration * pos[2], cur + delta * pos[2]))
             num == new_pos * p.total_frames
         IN IF num % den = 0 /\ new_pos > 0 /\ new_pos < p.video_duration * pos[2]
            THEN {num \div den - 1, num \div den}
            ELSE {num \div den}
    ELSE {p.current_frame}

\* select_video with a file chosen; ok says whether load_video succeeds
SelectVideo(clip, ok) ==
    /\ \E p \in {IF video_loaded THEN Stop(Player) ELSE Player} :
          SetPlayer(IF ok THEN LoadVideo(p, clip) ELSE p)
    /\ video_loaded' = ok
    /\ UNCHANGED <<seeks, playback_finished, loop_found_playing>>

\* lines 294-301 of the capture loop: a command returned by process_frame is
\* emitted through command_detected unless it is the one emitted before
ForwardCommand(command) ==
    /\ Forwarded(command, last_command) # "None"
    /\ cmd_queue' = Append(cmd_queue, command)
    /\ last_command' = command

\* handle_command, called with the oldest command emitted
HandleCommand ==
    /\ cmd_queue # <<>>
    /\ cmd_queue' = Tail(cmd_queue)
    /\ \E command \in {Head(cmd_queue)} :
          IF command = "toggle" /\ video_loaded
          THEN /\ SetPlayer(IF playing /\ ~paused THEN Pause(Player) ELSE Play(Player))
               /\ UNCHANGED seeks
          ELSE IF command \in {"seek_forward", "seek_back"} /\ video_loaded
          THEN /\ \E target_frame \in TargetFrames(Player, command) :
                     seeks' = Append(seeks, target_frame)
               /\ SetPlayer(Player)
          ELSE SetPlayer(Player) /\ UNCHANGED seeks
    /\ UNCHANGED <<video_loaded, playback_finished, loop_found_playing>>

\* the k-th of the _do_seek threads started runs
DoSeek(k) ==
    /\ k \in DOMAIN seeks
    /\ SetPlayer(Seek(Player, seeks[k]))
    /\ seeks' = [i \in 1 .. Len(seeks) - 1 |-> IF i < k THEN seeks[i] ELSE seeks[i + 1]]
    /\ UNCHANGED <<video_loaded, playback_finished, loop_found_playing>>

\* on_progress_slider_released with the slider at value (of 1000)
SliderReleased(value) ==
    /\ IF video_loaded
       THEN SetPlayer(Seek(Player, (value * total_frames) \div 1000))
       ELSE SetPlayer(Player)
    /\ UNCHANGED <<video_loaded, seeks, playback_finished, loop_found_playing>>

\* one pass of VideoPlayerThread.run while playing; the clip is set when
\* the last load_video succeeded
PlayerRun(elapsed_ms) ==
    /\ playing /\ ~paused /\ ~stopped
    /\ video_loaded
    /\ SetPlayer(RunPass(Player, elapsed_ms))
    /\ playback_finished' = (playback_finished \/ RunPass(Player, elapsed_ms).stopped)
    /\ UNCHANGED <<video_loaded, seeks, loop_found_playing>>

\* lines 364-375 of run: the loop reads the flags under the lock and goes on
\* to its pass when it finds the player playing with a clip
LoopCheck ==
    /\ ~loop_found_playing
    /\ playing /\ ~paused /\ ~stopped
    /\ video_loaded
    /\ loop_found_playing' = TRUE
    /\ SetPlayer(Player)
    /\ UNCHANGED <<video_loaded, seeks, playback_finished>>

\* lines 377-393 of run: the pass, under the lock again, whatever the flags
\* have become since they were read
LoopPass(elapsed_ms) ==
    /\ loop_found_playing
    /\ loop_found_playing' = FALSE
    /\ SetPlayer(RunPass(Player, elapsed_ms))
    /\ playback_finished' = (playback_finished \/ RunPass(Player, elapsed_ms).stopped)
    /\ UNCHANGED <<video_loaded, seeks>>

\* play_video, pause_video and stop_video of MainWindow (lines 632-650)
PlayVideo ==
    /\ SetPlayer(IF video_loaded THEN Play(Player) ELSE Player)
    /\ UNCHANGED <<video_loaded, seeks, playback_finished, loop_found_playing>>

PauseVideo ==
    /\ SetPlayer(IF video_loaded THEN Pause(Player) ELSE Player)
    /\ UNCHANGED <<video_loaded, seeks, playback_finished, loop_found_playing>>

StopVideo ==
    /\ SetPlayer(IF video_loaded THEN Stop(Player) ELSE Player)
    /\ UNCHANGED <<video_loaded, seeks, playback_finished, loop_found_playing>>

\* on_playback_finished: play_next_video with the next file of the directory
OnPlaybackFinished(clip, ok) ==
    /\ playback_finished
    /\ playback_finished' = FALSE
    /\ SetPlayer(IF ok THEN Play(LoadVideo(Stop(Player), clip)) ELSE Stop(Player))
    /\ video_loaded' = ok
    /\ UNCHANGED <<seeks, loop_found_playing>>

-----------------------------------------------------------------------------
(* Seek specification: clips of 12 s at 30 frames per second, of 4 s at 25  *)
(* and of 30 ms at 30 (less than one frame) are loaded, played and sought   *)
(* through by toggle, seek_forward and seek_back commands and by the        *)
(* slider.  scene.op names the last step, scene.arg the frame asked of the  *)
(* last seek, and scene.steps counts the loads, the commands detected, the  *)
(* passes of the playback loop and the slider moves.                        *)

MaxSeekSteps == 6
MaxPending == 2

Clips ==
    {[duration |-> 12000, fps |-> 30], [duration |-> 4000, fps |-> 25],
     [duration |-> 30, fps |-> 30]}

SeekCommands == {"toggle", "seek_forward", "seek_back"}

SeekScene(sc, op, arg, steps) == [op |-> op, arg |-> arg, steps |-> sc.steps + steps]

SeekSelect ==
    /\ scene.steps < MaxSeekSteps
    /\ \E clip \in Clips, ok \in BOOLEAN : SelectVideo(clip, ok)
    /\ scene' = SeekScene(scene, "select_video", 0, 1)
    /\ UNCHANGED <<recognizerVars, captureVars, clock>>

SeekForward ==
    /\ scene.steps < MaxSeekSteps
    /\ \E command \in SeekCommands : ForwardCommand(command)
    /\ scene' = SeekScene(scene, "command_detected", 0, 1)
    /\ UNCHANGED <<recognizerVars, playerVars, clock>>
    /\ UNCHANGED <<hands_open, running, detecting, last_detect_time, thread_frame_count, thread_fps,
                   last_fps_time, frame_remain, command_remain, status>>

SeekHandle ==
    /\ Len(seeks) < MaxPending
    /\ HandleCommand
    /\ scene' = SeekScene(scene, IF Len(seeks') > Len(seeks) THEN "handle_seek"
                                 ELSE "handle_command", 0, 0)
    /\ UNCHANGED <<recognizerVars, clock>>
    /\ UNCHANGED <<hands_open, running, detecting, last_command, last_detect_time, thread_frame_count,
                   thread_fps, last_fps_time, frame_remain, command_remain, status>>

SeekThread ==
    /\ \E k \in DOMAIN seeks :
          /\ DoSeek(k)
          /\ scene' = SeekScene(scene, "seek", seeks[k], 0)
    /\ UNCHANGED <<recognizerVars, captureVars, clock>>

SeekSlider ==
    /\ scene.steps < MaxSeekSteps
    /\ \E value \in {0, 500, 1000} :
          /\ SliderReleased(value)
          /\ scene' = SeekScene(scene, "slider", (value * total_frames) \div 1000, 1)
    /\ UNCHANGED <<recognizerVars, captureVars, clock>>

SeekRun ==
    /\ scene.steps < MaxSeekSteps
    /\ \E elapsed_ms \in {40, 2000} : PlayerRun(elapsed_ms)
    /\ scene' = SeekScene(scene, "run", 0, 1)
    /\ UNCHANGED <<recognizerVars, captureVars, clock>>

SeekFinished ==
    /\ scene.steps < MaxSeekSteps
    /\ \E clip \in Clips, ok \in BOOLEAN : OnPlaybackFinished(clip, ok)
    /\ scene' = SeekScene(scene, "on_playback_finished", 0, 1)
    /\ UNCHANGED <<recognizerVars, captureVars, clock>>

SeekInit ==
    WindowInit /\ scene = [op |-> "init", arg |-> 0, steps |-> 0]

SeekNext ==
    \/ SeekSelect
    \/ SeekForward
    \/ SeekHandle
    \/ SeekThread
    \/ SeekSlider
    \/ SeekRun
    \/ SeekFinished

SpecSeek == SeekInit /\ [][SeekNext]_vars

\* the position get_position reports lies in [0, 1]
PositionInUnit ==
    /\ 0 <= GetPosition(Player)[1]
    /\ GetPosition(Player)[1] <= GetPosition(Player)[2]

\* the position moved to by a seek command handled when the player was at
\* frame, in units of 1/(video_duration * total_frames) of a frame: the
\* position of the frame moved by 5 s and clamped to [0, video_duration]
SoughtPosition(frame, forward) ==
    Max(0, Min(video_duration * total_frames,
               frame * video_duration
                   + (IF forward THEN 5000 ELSE -5000) * total_frames))

\* C15, as stated: with a video loaded, after a seek command has been
\* carried out current_frame lies in [0, total_frames - 1].
SoughtFrameInRange ==
    (video_loaded /\ scene.op = "seek") => current_frame \in 0 .. total_frames - 1

\* C15, amended: with a loaded video of at least one frame, handling
\* seek_forward or seek_back asks for the frame at the position of handling
\* time plus or minus 5 s, clamped to [0, duration], to within one frame
\* below; VideoPlayerThread.seek clamps the frame asked for to
\* [0, total_frames - 1]; current_frame stays in [0, total_frames - 1] and
\* get_position() in [0, 1].
SeekWithinClip ==
    /\ [](PositionInUnit)
    /\ []((video_loaded /\ total_frames >= 1) => current_frame \in 0 .. total_frames - 1)
    /\ [][(scene'.op = "handle_seek" /\ total_frames >= 1) =>
             \E target \in {seeks'[Len(seeks')]}, forward \in {Head(cmd_queue) = "seek_forward"} :
                /\ target * video_duration <= SoughtPosition(current_frame, forward)
                /\ SoughtPosition(current_frame, forward) <= (target + 1) * video_duration
                /\ target \in 0 .. total_frames]_vars
    /\ [][scene'.op = "seek" =>
             /\ current_frame' = Max(0, Min(scene'.arg, total_frames - 1))
             /\ UNCHANGED <<total_frames, video_duration, playing, paused, stopped>>]_vars

\* a seek_forward in the 4 s clip asked for the frame after the last one
\* and the player went to the last frame
ForwardClampedAtEnd ==
    /\ scene.op = "seek" /\ scene.arg = total_frames
    /\ video_loaded /\ total_frames = 100
    /\ current_frame = total_frames - 1
    /\ scene.steps = 2

-----------------------------------------------------------------------------
(* Motion specification: one hand of width 80 px, an open palm, a pointing  *)
(* hand or a fist for the whole run (scene.shape), detected in every frame. *)
(* In each frame the tracker reports the hand 3 px lower, 6 px higher, 6 px *)
(* to the right, 6 px to the left, 4 px right and 6 px lower, or at rest;   *)
(* frames are 33 ms apart, a frame at rest may also come 300 ms after the   *)
(* one before (the open-palm cooldown met exactly).  The landmarks follow   *)
(* the reported motion from scene.pos.  scene.last is the motion of the     *)
(* last frame and scene.changes the number of frames whose motion differed  *)
(* from the frame before.  scene.hlatched says that a horizontal swipe has  *)
(* been emitted and no frame since had |dx_ema| <= 0.8 x 1.20;              *)
(* scene.hrefired that the last frame emitted a horizontal swipe while      *)
(* latched; scene.swiped that a swipe has been emitted, at scene.swipe_ms.  *)

MotionStart == <<320, 220>>

MotionShapes == <<OpenPalmShape, PointShape, FistShape>>

Motions ==
    << [dt |-> 33, d |-> <<0, 3>>], [dt |-> 33, d |-> <<0, -6>>],
       [dt |-> 33, d |-> <<6, 0>>], [dt |-> 33, d |-> <<-6, 0>>],
       [dt |-> 33, d |-> <<4, 6>>], [dt |-> 33, d |-> <<0, 0>>],
       [dt |-> 300, d |-> <<0, 0>> ] >>

MotionHand(sc) == Hand(MotionShapes[sc.shape], 2, sc.pos)

MotionScene(sc, k) ==
    LET swipe == detection_result'.cmd \in {"vol_up", "vol_down", "seek_back", "seek_forward"}
        horizontal == detection_result'.cmd \in {"seek_back", "seek_forward"}
        hstill == sc.hlatched /\ 10 * Abs(dx_ema') > 8 * 12000
    IN [shape |-> sc.shape,
        pos |-> <<sc.pos[1] + Motions[k].d[1], sc.pos[2] + Motions[k].d[2]>>,
        last |-> k,
        changes |-> IF sc.last \in {0, k} THEN sc.changes ELSE sc.changes + 1,
        hlatched |-> horizontal \/ hstill,
        hrefired |-> horizontal /\ hstill,
        swiped |-> sc.swiped \/ swipe,
        swipe_ms |-> IF swipe THEN clock' ELSE sc.swipe_ms]

MotionFrame ==
    \E k \in DOMAIN Motions :
        /\ frames < MaxMotionFrames
        /\ scene.last \in {0, k} \/ scene.changes < MaxMotionChanges
        /\ ProcessFrame(Motions[k].dt,
                        <<Hand(MotionShapes[scene.shape], 2,
                               <<scene.pos[1] + Motions[k].d[1],
                                 scene.pos[2] + Motions[k].d[2]>>)>>,
                        LkUniform(Motions[k].d[1], Motions[k].d[2]))
        /\ UNCHANGED <<captureVars, playerVars>>
        /\ scene' = MotionScene(scene, k)

MotionInit ==
    /\ WindowInit
    /\ \E shape \in DOMAIN MotionShapes :
          scene = [shape |-> shape, pos |-> MotionStart, last |-> 0, changes |-> 0,
                   hlatched |-> FALSE, hrefired |-> FALSE, swiped |-> FALSE, swipe_ms |-> 0]

SpecMotion == MotionInit /\ [][MotionFrame]_vars

\* C21: once a horizontal swipe has been emitted, no later frame emits a
\* horizontal swipe until a frame has |dx_ema| <= 0.8 x 1.20 (scene.hrefired
\* never set), and the horizontal gate is latched exactly from the swipe to
\* the first such frame: it is cleared on those frames and on no others.
HorizontalLatchedUntilSlow ==
    /\ ~scene.hrefired
    /\ dx_gate_high <=> scene.hlatched

\* a frame after the swipe that meets every other condition of a horizontal
\* swipe, |dx_ema| still above 1.20, and emits nothing
HorizontalHeldBack ==
    /\ scene.hlatched
    /\ detection_result.cmd = "None"
    /\ loc.four >= 1
    /\ 10 * Abs(loc.dx_med) > 22 * Abs(loc.dy_med)
    /\ Abs(dx_ema) > 12000
    /\ ConsistentSign(flow_window_dx, 4)

\* The conditions of the swipes, stated on the frame just processed: the
\* window medians and the finger count of the frame (loc'), the accumulators
\* and the flow windows after it, the gates before it.
SameSignFour(window) ==
    /\ Len(window) = 4
    /\ (\A k \in 1..4 : window[k] > 0) \/ (\A k \in 1..4 : window[k] < 0)

FrameClassified == frames' = frames + 1 /\ loc'.tid # NoTrack

VerticalEmitted == detection_result'.cmd \in {"vol_up", "vol_down"}

HorizontalEmitted == detection_result'.cmd \in {"seek_back", "seek_forward"}

VerticalConditions ==
    /\ loc'.four >= 1
    /\ IF loc'.dy_med > 0 THEN 10 * Abs(loc'.dy_med) > 18 * Abs(loc'.dx_med)
                          ELSE 10 * Abs(loc'.dy_med) > 22 * Abs(loc'.dx_med)
    /\ \/ Abs(dy_ema') > loc'.v_thr
       \/ loc'.dy_med > 0 /\ loc'.down_path_sum > 18000
    /\ ~(dy_gate_high /\ 10 * Abs(dy_ema') > 8 * 12000)
    /\ SameSignFour(flow_window_dy')

HorizontalConditions ==
    /\ loc'.four >= 1
    /\ 10 * Abs(loc'.dx_med) > 22 * Abs(loc'.dy_med)
    /\ Abs(dx_ema') > 12000
    /\ ~(dx_gate_high /\ 10 * Abs(dx_ema') > 8 * 12000)
    /\ SameSignFour(flow_window_dx')

\* C22: a classified frame emits a vertical swipe if and only if a non-thumb
\* finger is extended, |dy_med| > ratio x |dx_med| (1.8 downward, 2.2
\* upward), |dy_ema| exceeds the threshold or the motion is downward with a
\* path sum above 1.80, the vertical gate is not latched after the
\* hysteresis step, and the flow window holds 4 samples of one non-zero
\* sign; so a swipe needs 4 recorded flow samples.
VerticalSwipeIff ==
    [][FrameClassified =>
          /\ VerticalEmitted <=> VerticalConditions
          /\ (VerticalEmitted \/ HorizontalEmitted) =>
                 Len(flow_window_dy') = 4 /\ Len(flow_window_dx') = 4]_vars

\* a downward swipe emitted on the path test alone, |dy_ema| below the threshold
SwipeDownByPath ==
    /\ detection_result.cmd = "vol_down"
    /\ loc.path_pass
    /\ ~loc.speed_pass
    /\ Len(flow_window_dy) = 4

\* C23: a classified frame emits a horizontal swipe if and only if no
\* vertical swipe triggered on it, a non-thumb finger is extended,
\* |dx_med| > 2.2 x |dy_med|, |dx_ema| > 1.20, the horizontal gate is not
\* latched and the horizontal flow window holds 4 samples of one non-zero
\* sign; the trigger latches the horizontal gate and records the time.
HorizontalSwipeIff ==
    [][FrameClassified =>
          /\ HorizontalEmitted <=> (~VerticalEmitted /\ HorizontalConditions)
          /\ HorizontalEmitted => dx_gate_high' /\ last_motion_cmd_ms' = clock']_vars

\* a swipe to the right emitted by a pointing hand, the gate latched by it
SwipeRightLatched ==
    /\ detection_result.cmd = "seek_forward"
    /\ loc.four = 1
    /\ dx_gate_high
    /\ last_motion_cmd_ms = clock

\* C24: gesture and cmd of every result are one of six pairs; a vertical
\* trigger emits swipe_up/vol_up iff dy_ema < 0 and a horizontal trigger
\* swipe_left/seek_back iff dx_ema > 0.
SixGesturePairs ==
    /\ <<detection_result.gesture, detection_result.cmd>> \in
          { <<"None", "None">>, <<"swipe_up", "vol_up">>, <<"swipe_down", "vol_down">>,
            <<"swipe_left", "seek_back">>, <<"swipe_right", "seek_forward">>,
            <<"open_palm", "toggle">> }
    /\ detection_result.cmd \in {"vol_up", "vol_down"} =>
          (detection_result.cmd = "vol_up" <=> dy_ema < 0)
    /\ detection_result.cmd \in {"seek_back", "seek_forward"} =>
          (detection_result.cmd = "seek_back" <=> dx_ema > 0)

\* a swipe to the left: the hand moved to the right of the image, dx_ema > 0
SwipeLeftEmitted ==
    /\ detection_result.gesture = "swipe_left"
    /\ detection_result.cmd = "seek_back"
    /\ dx_ema > 0
    /\ scene.pos[1] > MotionStart[1]

\* C25: vol_down is emitted only on a frame whose windowed median dy_med is
\* positive (downward) and vol_up only on a frame where it is negative.
SwipeDirectionIsTestedDirection ==
    /\ detection_result.cmd = "vol_down" => loc.dy_med > 0
    /\ detection_result.cmd = "vol_up" => loc.dy_med < 0

\* The open-palm eligibility condition on the frame just processed: not within
\* 300 ms of the last swipe (scene.swipe_ms), window medians below 6 px,
\* four fingers extended, the spread in range, the track armed.
PalmConditions ==
    /\ ~(scene.swiped /\ clock' - scene.swipe_ms < 300)
    /\ Abs(loc'.dx_med) < 6 * FlowUnit /\ Abs(loc'.dy_med) < 6 * FlowUnit
    /\ loc'.four >= 4
    /\ SpreadInRange(MotionHand(scene'), PalmCenter(MotionHand(scene')))
    /\ loc'.armed_in

\* C26: a classified frame emits at most one gesture, a vertical swipe
\* before a horizontal swipe before an open palm: when the conditions of a
\* swipe hold the swipe is emitted whatever the open-palm counter, and a
\* toggle is emitted only when neither swipe triggers.  A frame with a
\* vertical swipe does not latch the horizontal gate, and a frame with a
\* horizontal swipe does not latch the vertical gate.
SwipesBeforePalmGatesApart ==
    [][FrameClassified =>
          /\ VerticalConditions => VerticalEmitted
          /\ (HorizontalConditions /\ ~VerticalConditions) => HorizontalEmitted
          /\ detection_result'.cmd = "toggle" =>
                 ~VerticalConditions /\ ~HorizontalConditions /\ PalmConditions
          /\ VerticalEmitted => (dx_gate_high' => dx_gate_high) /\ dy_gate_high'
          /\ HorizontalEmitted => (dy_gate_high' => dy_gate_high) /\ dx_gate_high']_vars

\* a vertical swipe emitted for an open palm that met the open-palm
\* condition on the same frame, the counter running; the horizontal gate open
SwipeWhilePalmEligible ==
    /\ detection_result.cmd = "vol_down"
    /\ loc.eligible
    /\ loc.four = 4
    /\ open_palm_stable_cnt > 0
    /\ dy_gate_high /\ ~dx_gate_high

\* C27: toggle is emitted exactly on the frame on which the counter reaches
\* 7, the 7th counted frame on which the eligibility condition held; the
\* counter is 0 after that frame, one more after every other counted frame,
\* and between frames it lies in 0..6.
ToggleOnSeventhCount ==
    /\ [](open_palm_stable_cnt \in 0..6)
    /\ [][FrameClassified =>
            LET counted == PalmConditions /\ ~VerticalEmitted /\ ~HorizontalEmitted
            IN /\ detection_result'.cmd = "toggle" <=> (counted /\ open_palm_stable_cnt = 6)
               /\ detection_result'.cmd = "toggle" => open_palm_stable_cnt' = 0
               /\ (counted /\ open_palm_stable_cnt < 6) =>
                      open_palm_stable_cnt' = open_palm_stable_cnt + 1]_vars

\* the toggle of the 7th frame of a palm at rest, the counter back at 0
ToggleOnFrameSeven ==
    /\ detection_result.cmd = "toggle"
    /\ frames = 7
    /\ open_palm_stable_cnt = 0
    /\ ~scene.swiped

\* C29: on a frame less than 300 ms after the most recent swipe trigger
\* toggle is not emitted and the counter is not incremented.
NoPalmCountInCooldown ==
    [][(FrameClassified /\ scene.swiped /\ clock' - scene.swipe_ms < 300) =>
          /\ detection_result'.cmd # "toggle"
          /\ open_palm_stable_cnt' <= open_palm_stable_cnt]_vars

\* an armed open palm, static, 33 ms after its swipe: the frame is not counted
PalmCoolingAfterSwipe ==
    /\ scene.swiped
    /\ clock - scene.swipe_ms = 33
    /\ detection_result.cmd = "None"
    /\ loc.four = 4 /\ loc.armed_in
    /\ Abs(loc.dx_med) < 6 * FlowUnit /\ Abs(loc.dy_med) < 6 * FlowUnit
    /\ open_palm_stable_cnt = 0

\* C28: after every processed frame on which the open-palm eligibility
\* condition does not hold the counter is 0; a frame with no detected hand
\* is such a frame.
NoHandFrameClearsCount ==
    (frames > 0 /\ num_hands = 0) => open_palm_stable_cnt = 0

\* C30: the counter accumulated for one primary hand does not contribute to
\* a gesture of another: a frame whose primary hand is another track than
\* the primary hand of the frame before does not emit toggle.
ToggleCountsOneHand ==
    [][(detection_result'.cmd = "toggle" /\ loc.tid # NoTrack) => loc'.tid = loc.tid]_vars

\* The open-palm conditions other than the static test, on the frame just
\* processed.
PalmButStatic ==
    /\ ~(scene.swiped /\ clock' - scene.swipe_ms < 300)
    /\ loc'.four >= 4
    /\ SpreadInRange(MotionHand(scene'), PalmCenter(MotionHand(scene')))
    /\ loc'.armed_in

\* C31 as stated: for the open-palm test the motion is static if and only
\* if |dx_med| and |dy_med| are both below about 4% of max(width, height),
\* 25 px for a frame 640 wide.
StaticBelowFourPercent ==
    [][(FrameClassified /\ PalmButStatic) =>
          (loc'.eligible <=> (Abs(loc'.dx_med) < 25 * FlowUnit /\ Abs(loc'.dy_med) < 25 * FlowUnit))]_vars

\* C31 amended: the motion is static if and only if |dx_med| and |dy_med|
\* are both below max(6, int(0.010 x max(width, height))) px, 6 px for a
\* frame 640 wide.
StaticBelowOnePercent ==
    [][(FrameClassified /\ PalmButStatic) =>
          (loc'.eligible <=> (Abs(loc'.dx_med) < 6 * FlowUnit /\ Abs(loc'.dy_med) < 6 * FlowUnit))]_vars

\* an armed open palm whose window median is 6 px: not static, not counted
PalmAtSixPixels ==
    /\ loc.four = 4 /\ loc.armed_in /\ ~scene.swiped
    /\ Abs(loc.dy_med) = 6 * FlowUnit
    /\ ~loc.eligible
    /\ open_palm_stable_cnt = 0
    /\ detection_result.cmd = "None"

-----------------------------------------------------------------------------
(* Finger specification: one hand at rest per frame, an open palm whose     *)
(* four fingertips are placed scene.rises[k] px above their PIP joints      *)
(* (k = 1 the index finger ... 4 the little finger), the rises drawn anew   *)
(* for every frame from values around delta = 10.                           *)

FingerRises == <<{9, 10, 11}, {9, 10, 11}, {10, 11}, {10, 11, 40}>>

FingerHand(rises) ==
    LET palm == Hand(OpenPalmShape, 2, <<320, 220>>)
    IN [palm EXCEPT ![8] = <<palm[8][1], palm[6][2] - rises[1]>>,
                    ![12] = <<palm[12][1], palm[10][2] - rises[2]>>,
                    ![16] = <<palm[16][1], palm[14][2] - rises[3]>>,
                    ![20] = <<palm[20][1], palm[18][2] - rises[4]>>]

FingerFrame ==
    \E r1 \in FingerRises[1], r2 \in FingerRises[2], r3 \in FingerRises[3], r4 \in FingerRises[4] :
        /\ frames < MaxFingerFrames
        /\ ProcessFrame(33, <<FingerHand(<<r1, r2, r3, r4>>)>>, LkStill)
        /\ UNCHANGED <<captureVars, playerVars>>
        /\ scene' = [rises |-> <<r1, r2, r3, r4>>]

FingerInit == WindowInit /\ scene = [rises |-> <<0, 0, 0, 0>>]

SpecFinger == FingerInit /\ [][FingerFrame]_vars

\* C32 as stated: a non-thumb finger is extended if and only if its tip is
\* at least 10 px above its PIP joint (tip_y <= pip_y - 10), and four is the
\* number of extended fingers among tips 8, 12, 16, 20, in 0..4.
FingerUpAtTenPixels ==
    frames > 0 =>
        /\ loc.four = Cardinality({k \in 1..4 : scene.rises[k] >= 10})
        /\ loc.four \in 0..4

\* C32 amended: a non-thumb finger is extended if and only if its tip is
\* more than 10 px above its PIP joint (tip_y < pip_y - 10), and four is the
\* number of extended fingers among tips 8, 12, 16, 20, in 0..4.
FingerUpAboveTenPixels ==
    frames > 0 =>
        /\ loc.four = Cardinality({k \in 1..4 : scene.rises[k] > 10})
        /\ loc.four \in 0..4

\* every fingertip exactly 10 px above its joint: no finger counts
FourTipsAtTenPixels ==
    frames > 0 /\ scene.rises = <<10, 10, 10, 10>> /\ loc.four = 0

-----------------------------------------------------------------------------
(* Flow specification: one pointing hand detected in every frame, frames    *)
(* 33 ms apart, the landmarks moving by the d of the answer.  The tracker   *)
(* finds every anchor displaced by d, or loses every anchor, or raises.     *)
(* scene.pos is the place of the hand, scene.kind the tracker's answer in   *)
(* the last frame, scene.first says that the last frame was the first call  *)
(* of _hand_flow.                                                           *)

FlowAnswers ==
    << [kind |-> "found", d |-> <<0, 3>>, lk |-> LkUniform(0, 3)],
       [kind |-> "found", d |-> <<6, 0>>, lk |-> LkUniform(6, 0)],
       [kind |-> "lost", d |-> <<0, 3>>, lk |-> LkLost],
       [kind |-> "raise", d |-> <<0, 3>>, lk |-> LkRaise] >>

FlowHand(pos) == Hand(PointShape, 2, pos)

FlowFrame ==
    \E k \in DOMAIN FlowAnswers :
        \E pos \in {<<scene.pos[1] + FlowAnswers[k].d[1], scene.pos[2] + FlowAnswers[k].d[2]>>} :
            /\ frames < MaxFlowFrames
            /\ ProcessFrame(33, <<FlowHand(pos)>>, FlowAnswers[k].lk)
            /\ UNCHANGED <<captureVars, playerVars>>
            /\ scene' = [pos |-> pos, kind |-> FlowAnswers[k].kind, first |-> prev_gray = 0]

FlowInit == WindowInit /\ scene = [pos |-> <<320, 150>>, kind |-> "none", first |-> FALSE]

SpecFlow == FlowInit /\ [][FlowFrame]_vars

\* the current frame and its 10 anchors are stored as the previous ones
PrevIsCurrent ==
    /\ prev_gray = frames
    /\ Len(prev_points) = 10
    /\ prev_points[1] = PalmCenter(FlowHand(scene.pos))
    /\ \A k \in 1..9 :
          prev_points[k + 1] = FlowHand(scene.pos)[<<0, 5, 9, 13, 17, 8, 12, 16, 20>>[k]]

\* C33: after every call of _hand_flow, whatever the tracker answered,
\* prev_gray is the current frame and prev_points are the 10 anchors of the
\* current frame; the first call returns (0, 0).
PrevStoredOnEveryPath ==
    frames > 0 =>
        /\ PrevIsCurrent
        /\ scene.first => loc.flow = <<0, 0>>

\* a call in which the tracker raised, after a call in which it did not
PrevStoredAfterRaise ==
    /\ frames >= 3
    /\ scene.kind = "raise"
    /\ flow_window_dy # <<>>
    /\ PrevIsCurrent

\* C34: when the tracker raises or no tracked point survives, _hand_flow
\* returns (0, 0) and stores the current frame and anchors as the previous
\* ones, and the frame is processed to its end.
FailedTrackingGivesZero ==
    (frames > 0 /\ scene.kind \in {"lost", "raise"}) =>
        /\ loc.flow = <<0, 0>>
        /\ PrevIsCurrent
        /\ detection_result.hand_present /\ detection_result.primary_center # NoPoint

\* every anchor lost after a frame with a flow of 3 px: the sample is zero
ZeroSampleAfterLoss ==
    /\ scene.kind = "lost"
    /\ ~scene.first
    /\ Len(flow_window_dy) >= 2
    /\ flow_window_dy[Len(flow_window_dy) - 1] = 3 * FlowUnit
    /\ flow_window_dy[Len(flow_window_dy)] = 0
    /\ loc.flow = <<0, 0>>

-----------------------------------------------------------------------------
(* Camera specification: the camera is turned on and off (toggle_camera)    *)
(* in front of a static open palm at PalmNear; while it is on the loop      *)
(* makes one iteration every 70 ms, with detection enabled.  scene.steps    *)
(* counts the steps, scene.stops the times the camera was turned off,       *)
(* scene.shown the frames passed to process_frame since it was last turned  *)
(* on.                                                                      *)

CameraOn ==
    /\ scene.steps < MaxCameraSteps
    /\ StartCapture
    /\ scene' = [scene EXCEPT !.steps = scene.steps + 1, !.shown = 0]
    /\ UNCHANGED playerVars

CameraOff ==
    /\ scene.steps < MaxCameraSteps
    /\ StopCapture
    /\ scene' = [scene EXCEPT !.steps = scene.steps + 1, !.stops = scene.stops + 1]
    /\ UNCHANGED playerVars

CameraFrame ==
    /\ scene.steps < MaxCameraSteps
    /\ CaptureStep(frame_interval_ms, TRUE, <<Hand(OpenPalmShape, 2, PalmNear)>>, LkStill, "none")
    /\ scene' = [scene EXCEPT !.steps = scene.steps + 1, !.shown = scene.shown + 1]
    /\ UNCHANGED playerVars

CameraInit == WindowInit /\ scene = [steps |-> 0, stops |-> 0, shown |-> 0]

CameraNext == CameraOn \/ CameraOff \/ CameraFrame

SpecCamera == CameraInit /\ [][CameraNext]_vars

\* C35: after the camera has been turned off and on again, the recognizer
\* of the capture thread still has its detector, and a frame with a hand
\* is reported with hand_present = true.
DetectsAfterRestart ==
    (running /\ scene.shown > 0) => (hands_open /\ status # <<>> /\ status.hand_present)

-----------------------------------------------------------------------------
(* Player specification: a clip of 4 s at 25 frames per second or of 30 ms  *)
(* at 30 is selected; the play, pause and stop buttons, the slider, toggle  *)
(* and seek_forward commands, the seek threads and the two steps of the     *)
(* playback loop interleave freely.  scene.op names the last step and       *)
(* scene.steps counts the steps.                                            *)

PlayerClips == {[duration |-> 4000, fps |-> 25], [duration |-> 30, fps |-> 30]}

PlayerScene(op) == [op |-> op, steps |-> scene.steps + 1]

PlayerSelect ==
    /\ scene.steps < MaxPlayerSteps
    /\ \E clip \in PlayerClips, ok \in BOOLEAN : SelectVideo(clip, ok)
    /\ scene' = PlayerScene("select_video")
    /\ UNCHANGED <<recognizerVars, captureVars, clock>>

PlayerPlay ==
    /\ scene.steps < MaxPlayerSteps
    /\ PlayVideo
    /\ scene' = PlayerScene("play_video")
    /\ UNCHANGED <<recognizerVars, captureVars, clock>>

PlayerPause ==
    /\ scene.steps < MaxPlayerSteps
    /\ PauseVideo
    /\ scene' = PlayerScene("pause_video")
    /\ UNCHANGED <<recognizerVars, captureVars, clock>>

PlayerStop ==
    /\ scene.steps < MaxPlayerSteps
    /\ StopVideo
    /\ scene' = PlayerScene("stop_video")
    /\ UNCHANGED <<recognizerVars, captureVars, clock>>

PlayerSlider ==
    /\ scene.steps < MaxPlayerSteps
    /\ \E value \in {500, 1000} : SliderReleased(value)
    /\ scene' = PlayerScene("slider")
    /\ UNCHANGED <<recognizerVars, captureVars, clock>>

PlayerCommand ==
    /\ scene.steps < MaxPlayerSteps
    /\ \E command \in {"toggle", "seek_forward"} : ForwardCommand(command)
    /\ scene' = PlayerScene("command_detected")
    /\ UNCHANGED <<recognizerVars, playerVars, clock>>
    /\ UNCHANGED <<hands_open, running, detecting, last_detect_time, thread_frame_count, thread_fps,
                   last_fps_time, frame_remain, command_remain, status>>

PlayerHandle ==
    /\ scene.steps < MaxPlayerSteps
    /\ HandleCommand
    /\ scene' = PlayerScene(IF Head(cmd_queue) = "toggle" THEN "handle_toggle" ELSE "handle_seek")
    /\ UNCHANGED <<recognizerVars, clock>>
    /\ UNCHANGED <<hands_open, running, detecting, last_command, last_detect_time, thread_frame_count,
                   thread_fps, last_fps_time, frame_remain, command_remain, status>>

PlayerSeekThread ==
    /\ scene.steps < MaxPlayerSteps
    /\ \E k \in DOMAIN seeks : DoSeek(k)
    /\ scene' = PlayerScene("seek")
    /\ UNCHANGED <<recognizerVars, captureVars, clock>>

PlayerLoopCheck ==
    /\ scene.steps < MaxPlayerSteps
    /\ LoopCheck
    /\ scene' = PlayerScene("loop_check")
    /\ UNCHANGED <<recognizerVars, captureVars, clock>>

PlayerLoopPass ==
    /\ scene.steps < MaxPlayerSteps
    /\ \E elapsed_ms \in {40, 2000} : LoopPass(elapsed_ms)
    /\ scene' = PlayerScene("loop_pass")
    /\ UNCHANGED <<recognizerVars, captureVars, clock>>

PlayerFinished ==
    /\ scene.steps < MaxPlayerSteps
    /\ \E clip \in PlayerClips, ok \in BOOLEAN : OnPlaybackFinished(clip, ok)
    /\ scene' = PlayerScene("on_playback_finished")
    /\ UNCHANGED <<recognizerVars, captureVars, clock>>

PlayerStart == WindowInit /\ scene = [op |-> "init", steps |-> 0]

PlayerNext ==
    \/ PlayerSelect
    \/ PlayerPlay
    \/ PlayerPause
    \/ PlayerStop
    \/ PlayerSlider
    \/ PlayerCommand
    \/ PlayerHandle
    \/ PlayerSeekThread
    \/ PlayerLoopCheck
    \/ PlayerLoopPass
    \/ PlayerFinished

SpecPlayer == PlayerStart /\ [][PlayerNext]_vars

\* a toggle command handled with a video loaded pauses when the player is
\* playing and not paused, and otherwise plays
ToggleHandled ==
    (cmd_queue # <<>> /\ cmd_queue' = Tail(cmd_queue) /\ Head(cmd_queue) = "toggle"
        /\ video_loaded) =>
        IF playing /\ ~paused
        THEN paused' /\ ~playing'
        ELSE playing' /\ ~paused' /\ ~stopped'

\* C36 as stated: playing and paused are never both true, playing implies
\* not stopped and paused implies not stopped; a toggle command handled with
\* a video loaded pauses when playing and not paused, and otherwise plays.
PlayerFlagsExclusive ==
    /\ [](~(playing /\ paused) /\ (playing => ~stopped) /\ (paused => ~stopped))
    /\ [][ToggleHandled]_vars

\* C36 amended: playing and paused are never both true and playing implies
\* not stopped (paused and stopped can both be true: pause does not clear
\* stopped); a toggle command handled with a video loaded pauses when
\* playing and not paused, and otherwise plays.
PlayingExcludesPausedStopped ==
    /\ [](~(playing /\ paused) /\ (playing => ~stopped))
    /\ [][ToggleHandled]_vars

\* a toggle command has paused the playing video
TogglePausedVideo ==
    /\ scene.op = "handle_toggle"
    /\ video_loaded
    /\ paused /\ ~playing /\ ~stopped

-----------------------------------------------------------------------------
(* History specification: one hand, an open palm or a pointing hand for the *)
(* whole run (scene.shape), detected in every frame.  In each frame the     *)
(* tracker reports the hand 3 px lower or 3 px higher 33 ms after the frame *)
(* before, at rest 300 ms after it, or raises 33 ms after it.  The answer   *)
(* may differ from the one of the frame before once in a run               *)
(* (scene.changed), at one of the frames of HistorySwaps.                   *)

HistoryAnswers ==
    << [dt |-> 33, d |-> <<0, 3>>, lk |-> LkUniform(0, 3)],
       [dt |-> 33, d |-> <<0, -3>>, lk |-> LkUniform(0, -3)],
       [dt |-> 300, d |-> <<0, 0>>, lk |-> LkStill],
       [dt |-> 33, d |-> <<0, 0>>, lk |-> LkRaise] >>

HistorySwaps == {3, 9} \cup (22..29)

HistoryShapes == <<OpenPalmShape, PointShape>>

HistoryFrame ==
    \E k \in DOMAIN HistoryAnswers :
        \E pos \in {<<scene.pos[1] + HistoryAnswers[k].d[1],
                      scene.pos[2] + HistoryAnswers[k].d[2]>>} :
            /\ frames < MaxHistoryFrames
            /\ \/ scene.last \in {0, k}
               \/ ~scene.changed /\ frames \in HistorySwaps
            /\ ProcessFrame(HistoryAnswers[k].dt, <<Hand(HistoryShapes[scene.shape], 2, pos)>>,
                            HistoryAnswers[k].lk)
            /\ UNCHANGED <<captureVars, playerVars>>
            /\ scene' = [shape |-> scene.shape, pos |-> pos, last |-> k,
                         changed |-> scene.changed \/ scene.last \notin {0, k}]

HistoryInit ==
    /\ WindowInit
    /\ \E shape \in DOMAIN HistoryShapes :
          scene = [shape |-> shape, pos |-> <<320, 240>>, last |-> 0, changed |-> FALSE]

SpecHistory == HistoryInit /\ [][HistoryFrame]_vars

\* the sum of the positive entries of the history at most 250 ms old
RECURSIVE RecentPositiveSum(_, _, _, _)
RecentPositiveSum(hist_norm, hist_t, now_ms, n) ==
    IF n = 0 THEN 0
    ELSE (IF now_ms - hist_t[n] <= 250 /\ hist_norm[n] > 0 THEN hist_norm[n] ELSE 0)
         + RecentPositiveSum(hist_norm, hist_t, now_ms, n - 1)

\* C37: after any sequence of frames the two flow windows hold at most 4
\* samples each and have equal length, the downward-path value and timestamp
\* histories hold at most 24 entries each and have equal length, and the
\* down_path_sum of a classified frame is the sum of the positive entries at
\* most 250 ms old.
HistoriesBounded ==
    /\ Len(flow_window_dx) <= 4 /\ Len(flow_window_dx) = Len(flow_window_dy)
    /\ Len(dy_hist_norm) <= 24 /\ Len(dy_hist_norm) = Len(dy_hist_t)
    /\ (frames > 0 /\ loc.tid # NoTrack) =>
          loc.down_path_sum =
              RecentPositiveSum(dy_hist_norm, dy_hist_t, clock, Len(dy_hist_norm))

\* the history is full after more than 24 frames and holds a positive entry
\* older than 250 ms next to one that is counted
HistoryFullWithOldEntries ==
    /\ frames > 24
    /\ Len(dy_hist_norm) = 24 /\ Len(flow_window_dy) = 4
    /\ loc.tid # NoTrack /\ loc.down_path_sum > 0
    /\ \E k \in DOMAIN dy_hist_norm : dy_hist_norm[k] > 0 /\ clock - dy_hist_t[k] > 250

\* the statistics step of one call: every 30th call resets the counter,
\* restarts the timer and recomputes fps, every other call only counts
StatsStep ==
    IF (frame_count + 1) % 30 = 0
    THEN /\ frame_count' = 0
         /\ start_time' = clock'
         /\ clock' > start_time => fps' = RDiv(30 * 1000000, clock' - start_time)
    ELSE /\ frame_count' = frame_count + 1
         /\ UNCHANGED <<start_time, fps>>

\* what a classified frame emits is decided by the swipe and open-palm
\* conditions alone
EmittedByConditions ==
    /\ VerticalEmitted <=> VerticalConditions
    /\ HorizontalEmitted <=> (~VerticalEmitted /\ HorizontalConditions)
    /\ detection_result'.cmd = "toggle" <=>
          /\ ~VerticalEmitted /\ ~HorizontalEmitted
          /\ loc'.eligible /\ open_palm_stable_cnt + 1 >= 7

\* C38: the frame counter is incremented once per process_frame call and
\* reset to 0 on every 30th call, when fps becomes 30 / elapsed seconds and
\* the timer is restarted, so it always lies in [0, 29]; on the call that
\* resets it as on every other the emitted command follows from the
\* classifier conditions alone.
FrameCounterCycles ==
    /\ [](frame_count \in 0..29 /\ frame_count = frames % 30)
    /\ [][(frames' = frames + 1) => StatsStep]_vars
    /\ [][FrameClassified => EmittedByConditions]_vars

\* the 30th call has reset the counter and computed fps, and has emitted a
\* downward swipe
SwipeOnResetFrame ==
    /\ frames = 30 /\ frame_count = 0
    /\ start_time = clock /\ fps > 0
    /\ detection_result.cmd = "vol_down"

====
